---- MODULE Spec2Model ----
(***************************************************************************)
(* Model of the upload server (src/server.js): chunk receipt, manifest     *)
(* bookkeeping, assembly, hash dedupe and serial allocation.               *)
(*                                                                         *)
(* Every request handler is an async function: it runs synchronously up to *)
(* an await and other handlers may run at each await.  A request is a      *)
(* record with a program counter (pc); one action models the synchronous   *)
(* code between two awaits together with the file operation awaited.       *)
(* Files are directory entries that point to inodes, so that a file        *)
(* descriptor keeps writing the inode it opened after a rename or unlink.  *)
(***************************************************************************)
EXTENDS Integers, Sequences, FiniteSets, TLC

\* ------------------------------------------------------------------
\* Bounds of the model
\* ------------------------------------------------------------------
MaxReq == 3          \* request slots; each slot serves one request

ReqIds == 1..MaxReq

\* ------------------------------------------------------------------
\* JavaScript values
\* ------------------------------------------------------------------
\* A JS number as produced by parseInt: an integer or NaN.  JsNull is the
\* JSON null that JSON.stringify writes for NaN; Absent is a field that
\* the request did not carry (the handler's variable stays null).
Num(i)  == [t |-> "num", v |-> i]
NaN     == [t |-> "NaN"]
JsNull  == [t |-> "null"]
Absent  == [t |-> "absent"]
IsInt(x) == x.t = "num"

\* JSON.stringify turns NaN into null; every other number is kept.
JsonNum(x) == IF x.t = "NaN" THEN JsNull ELSE x

\* Array.prototype.includes (SameValueZero: NaN is found, null is not NaN).
Includes(list, x) == \E k \in 1..Len(list) : list[k] = x

\* JSON.stringify(manifest) followed by JSON.parse: what a later reader of
\* the manifest file gets back.
ManifestJson(m) ==
  [uploadId    |-> m.uploadId,
   totalChunks |-> JsonNum(m.totalChunks),
   received    |-> [k \in 1..Len(m.received) |-> JsonNum(m.received[k])]]

\* ------------------------------------------------------------------
\* Functions with a changing domain (directories, inode tables, maps)
\* ------------------------------------------------------------------
Put(f, k, v) == [x \in (DOMAIN f) \cup {k} |-> IF x = k THEN v ELSE f[x]]
Del(f, k)    == [x \in (DOMAIN f) \ {k} |-> f[x]]
Has(f, k)    == k \in DOMAIN f
Range(f)     == {f[x] : x \in DOMAIN f}
Empty        == [x \in {} |-> 0]

\* ------------------------------------------------------------------
\* Owner lookup (users.csv): authKey -> full name
\* ------------------------------------------------------------------
users == [k \in {"k1", "k2"} |-> IF k = "k1" THEN "Ann" ELSE "Bob"]

\* ------------------------------------------------------------------
\* Paths
\* ------------------------------------------------------------------
getManifestPath(id) == <<"manifests", id, ".json">>
logFile             == <<"data", "upload_log", ".json">>
\* writeJsonAtomic's staging path: `${file}.tmp`
TmpPathOf(file)     == <<file[1], file[2], file[3] \o ".tmp">>
\* getChunkPath(uploadId, index): the key of a chunk file in chunkDir
getChunkPath(uploadId, index) == <<uploadId, index>>

NoIno == <<0, 0>>

\* The upload ids that clients use
UploadIds == {"u1", "u2"}

\* ------------------------------------------------------------------
\* State
\* ------------------------------------------------------------------
VARIABLES
  req,          \* request slot -> the request's inputs, locals and pc
  chunkFiles,   \* chunkDir: chunk path -> inode
  inflight,     \* chunkDir: ".inflight.*" staging file of a request -> inode
  blobs,        \* inode -> bytes, for every byte file
  jsonFiles,    \* manifest and log paths -> inode
  jsonInodes,   \* inode -> content of a JSON file
  tmpFiles,     \* tmpUploadDir: staged or merged temp file -> inode
  uploadDir,    \* uploadDir: entry name -> stored file or lock directory
  hashIndex,    \* in-memory Map sha256 -> savedName
  uploadLog     \* in-memory upload log (array of entries)

vars == <<req, chunkFiles, inflight, blobs, jsonFiles, jsonInodes,
          tmpFiles, uploadDir, hashIndex, uploadLog>>

chunkVars == <<chunkFiles, inflight>>
jsonVars  == <<jsonFiles, jsonInodes>>
storeVars == <<tmpFiles, uploadDir>>
memVars   == <<hashIndex, uploadLog>>

\* Content of a JSON file: complete text of one record, or the empty file
\* left by open(.., 'w') before the data is written.
Truncated  == [full |-> FALSE]
Full(v)    == [full |-> TRUE, val |-> v]

IdleReq ==
  [kind |-> "none", pc |-> "idle", authKey |-> "", uploadId |-> "",
   index |-> Absent, totalChunks |-> Absent, fieldsFirst |-> FALSE,
   payload |-> <<>>, pos |-> 0, fd |-> NoIno, wroteTemp |-> FALSE,
   wjFile |-> <<>>, wjObj |-> Absent, wjFd |-> NoIno,
   ext |-> "", isVideo |-> FALSE, i |-> 0, hasher |-> <<>>, sha256 |-> 0,
   staged |-> <<>>, k |-> 0, n |-> 0, frOk |-> FALSE, existing |-> Absent,
   deduped |-> FALSE, files |-> <<>>, savedFiles |-> <<>>, reply |-> [status |-> 0]]

\* The handler returns: its locals are gone; what was sent and what was
\* replied is kept for the properties.
Finish(q, reply) ==
  [IdleReq EXCEPT !.kind = q.kind, !.pc = "done", !.authKey = q.authKey,
     !.uploadId = q.uploadId, !.index = q.index, !.totalChunks = q.totalChunks,
     !.payload = q.payload, !.ext = q.ext, !.isVideo = q.isVideo,
     !.files = q.files, !.sha256 = q.sha256, !.reply = reply]

\* The file system frees an inode once no directory entry and no open
\* descriptor refers to it.
BlobFds(rq) == {rq[r].fd : r \in ReqIds}
JsonFds(rq) == {rq[r].wjFd : r \in ReqIds}
FileInos(ud) == {ud[x].ino : x \in {y \in DOMAIN ud : ud[y].kind = "file"}}
Restrict(f, S) == [x \in (DOMAIN f) \cap S |-> f[x]]
CollectBlobs(tbl, cf, inf, tf, ud, rq) ==
  Restrict(tbl, Range(cf) \cup Range(inf) \cup Range(tf) \cup FileInos(ud) \cup BlobFds(rq))
CollectJson(tbl, jf, rq) == Restrict(tbl, Range(jf) \cup JsonFds(rq))

\* ------------------------------------------------------------------
\* Byte files
\* ------------------------------------------------------------------
\* write(fd, byte) at the descriptor's own offset; a gap left by another
\* writer's truncation reads as zero bytes.
WriteAt(bytes, pos, b) ==
  [k \in 1..(IF pos + 1 > Len(bytes) THEN pos + 1 ELSE Len(bytes)) |->
     IF k = pos + 1 THEN b
     ELSE IF k <= Len(bytes) THEN bytes[k] ELSE 0]

\* ------------------------------------------------------------------
\* POST /upload-chunk
\* ------------------------------------------------------------------
\* The parts of the request are read.  When the file part arrives the
\* handler opens its target with createWriteStream (flag 'w': create or
\* truncate): the final chunk path if uploadId and index are known by
\* then, a private ".inflight" path otherwise.
ChunkStart(r, key, u, idx, tot, ff, pay) ==
  /\ req[r].pc = "idle"
  /\ LET direct == ff /\ u # "" /\ idx # Absent
         path   == getChunkPath(u, idx)
         reuse  == direct /\ Has(chunkFiles, path)
         ino    == IF reuse THEN chunkFiles[path] ELSE <<r, 0>>
         rq     == [req EXCEPT ![r] =
                      [IdleReq EXCEPT !.kind = "chunk", !.authKey = key,
                         !.uploadId = u, !.index = idx, !.totalChunks = tot,
                         !.fieldsFirst = ff, !.payload = pay, !.pos = 0,
                         !.fd = IF pay = <<>> THEN NoIno ELSE ino,
                         !.wroteTemp = ~direct,
                         !.pc = IF pay = <<>> THEN "validate" ELSE "cw_write"]]
     IN /\ req' = rq
        /\ chunkFiles' = IF direct THEN Put(chunkFiles, path, ino) ELSE chunkFiles
        /\ inflight' = IF direct THEN inflight ELSE Put(inflight, r, ino)
        /\ blobs' = Put(blobs, ino, <<>>)
  /\ UNCHANGED <<jsonFiles, jsonInodes, storeVars, memVars>>

\* One piece of the payload is written through the descriptor.  After the
\* last piece the stream is closed and pipeline() resolves.
ChunkWrite(r) ==
  /\ req[r].pc = "cw_write"
  /\ LET q    == req[r]
         last == q.pos + 1 = Len(q.payload)
         rq   == [req EXCEPT ![r].pos = q.pos + 1,
                             ![r].fd = IF last THEN NoIno ELSE q.fd,
                             ![r].pc = IF last THEN "validate" ELSE "cw_write"]
     IN /\ req' = rq
        /\ blobs' = CollectBlobs(
                      [blobs EXCEPT ![q.fd] = WriteAt(@, q.pos, q.payload[q.pos + 1])],
                      chunkFiles, inflight, tmpFiles, uploadDir, rq)
  /\ UNCHANGED <<chunkFiles, inflight, jsonFiles, jsonInodes, storeVars, memVars>>

\* A handler that would go on after a failed pipeline()
ChunkAbortSwallowed(r) ==
  /\ req[r].pc = "cw_write"
  /\ LET rq == [req EXCEPT ![r].fd = NoIno, ![r].pc = "validate"]
     IN /\ req' = rq
        /\ blobs' = CollectBlobs(blobs, chunkFiles, inflight, tmpFiles, uploadDir, rq)
  /\ UNCHANGED <<chunkFiles, inflight, jsonFiles, jsonInodes, storeVars, memVars>>
\* The client drops the connection while the payload is streamed:
\* pipeline() rejects, the handler's catch replies 500.  The target file
\* keeps the bytes written so far.
ChunkAbort(r) ==
  /\ req[r].pc = "cw_write"
  /\ LET rq == [req EXCEPT ![r] = Finish(req[r], [status |-> 500])]
     IN /\ req' = rq
        /\ blobs' = CollectBlobs(blobs, chunkFiles, inflight, tmpFiles, uploadDir, rq)
  /\ UNCHANGED <<chunkFiles, inflight, jsonFiles, jsonInodes, storeVars, memVars>>

\* "Basic validation (after consuming the body)".
ChunkValidate(r) ==
  /\ req[r].pc = "validate"
  /\ LET q == req[r] IN
       req' = [req EXCEPT ![r] =
         IF q.authKey = "" \/ ~Has(users, q.authKey)
           THEN Finish(q, [status |-> 403])
         ELSE IF q.uploadId = "" \/ q.index = Absent \/ q.totalChunks = Absent
           THEN Finish(q, [status |-> 400])
         ELSE [q EXCEPT !.pc = IF q.wroteTemp THEN "cw_rename" ELSE "mf_exists"]]
  /\ UNCHANGED <<chunkFiles, inflight, blobs, jsonFiles, jsonInodes, storeVars, memVars>>

\* A handler that would copy the staging file to the final chunk path
ChunkRenameTempCopy(r) ==
  /\ req[r].pc = "cw_rename"
  /\ LET q == req[r]
         path == getChunkPath(q.uploadId, q.index)
     IN IF Has(inflight, r)
        THEN LET cf == Put(chunkFiles, path, inflight[r])
                 rq == [req EXCEPT ![r].pc = "mf_exists"]
             IN /\ chunkFiles' = cf
                /\ inflight' = inflight
                /\ req' = rq
                /\ blobs' = CollectBlobs(blobs, cf, inflight, tmpFiles, uploadDir, rq)
        ELSE /\ req' = [req EXCEPT ![r] = Finish(req[r], [status |-> 500])]
             /\ UNCHANGED <<chunkFiles, inflight, blobs>>
  /\ UNCHANGED <<jsonFiles, jsonInodes, storeVars, memVars>>
\* rename(staging file, final chunk path)
ChunkRenameTemp(r) ==
  /\ req[r].pc = "cw_rename"
  /\ LET q == req[r]
         path == getChunkPath(q.uploadId, q.index)
     IN IF Has(inflight, r)
        THEN LET cf == Put(chunkFiles, path, inflight[r])
                 inf == Del(inflight, r)
                 rq == [req EXCEPT ![r].pc = "mf_exists"]
             IN /\ chunkFiles' = cf
                /\ inflight' = inf
                /\ req' = rq
                /\ blobs' = CollectBlobs(blobs, cf, inf, tmpFiles, uploadDir, rq)
        ELSE /\ req' = [req EXCEPT ![r] = Finish(req[r], [status |-> 500])]
             /\ UNCHANGED <<chunkFiles, inflight, blobs>>
  /\ UNCHANGED <<jsonFiles, jsonInodes, storeVars, memVars>>

\* "if (!manifest.received.includes(index)) manifest.received.push(index)"
MarkReceived(m, index) ==
  IF Includes(m.received, index) THEN m
  ELSE [m EXCEPT !.received = Append(@, index)]

FreshManifest(q) ==
  [uploadId |-> q.uploadId, totalChunks |-> q.totalChunks, received |-> <<>>]

\* The call writeJsonAtomic(file, obj) up to its first await.
CallWriteJson(q, file, obj) ==
  [q EXCEPT !.wjFile = file, !.wjObj = obj, !.pc = "wj_open"]

\* existsSync(manifestPath): without a manifest the handler goes on,
\* synchronously, to mark the index in a fresh manifest and to call
\* writeJsonAtomic; with one it awaits readFile.
ChunkManifestExists(r) ==
  /\ req[r].pc = "mf_exists"
  /\ LET q == req[r]
         file == getManifestPath(q.uploadId)
     IN req' = [req EXCEPT ![r] =
          IF Has(jsonFiles, file)
          THEN [q EXCEPT !.pc = "mf_read"]
          ELSE CallWriteJson(q, file, ManifestJson(MarkReceived(FreshManifest(q), q.index)))]
  /\ UNCHANGED <<chunkFiles, inflight, blobs, jsonFiles, jsonInodes, storeVars, memVars>>

\* readFile + JSON.parse inside try/catch: a missing file or an
\* unparseable text leaves the fresh manifest in place.
ChunkManifestRead(r) ==
  /\ req[r].pc = "mf_read"
  /\ LET q == req[r]
         file == getManifestPath(q.uploadId)
         text == IF Has(jsonFiles, file) THEN jsonInodes[jsonFiles[file]] ELSE Truncated
         m    == IF text.full THEN text.val ELSE FreshManifest(q)
     IN req' = [req EXCEPT ![r] = CallWriteJson(q, file, ManifestJson(MarkReceived(m, q.index)))]
  /\ UNCHANGED <<chunkFiles, inflight, blobs, jsonFiles, jsonInodes, storeVars, memVars>>

\* After writeJsonAtomic: stat(wrotePath) for the log line, then the reply.
ChunkReply(r) ==
  /\ req[r].pc = "wj_done"
  /\ req[r].kind = "chunk"
  /\ req' = [req EXCEPT ![r] = Finish(req[r], [status |-> 200, index |-> req[r].index])]
  /\ UNCHANGED <<chunkFiles, inflight, blobs, jsonFiles, jsonInodes, storeVars, memVars>>

\* ------------------------------------------------------------------
\* writeJsonAtomic(file, obj)
\* ------------------------------------------------------------------
\* fs.promises.writeFile(tmp, text) opens tmp with flag 'w': the file is
\* created, or the existing file is truncated, before any text is written.
WriteJsonOpen(r) ==
  /\ req[r].pc = "wj_open"
  /\ LET tmp == TmpPathOf(req[r].wjFile)
         ino == IF Has(jsonFiles, tmp) THEN jsonFiles[tmp] ELSE <<r, 0>>
     IN /\ jsonFiles' = Put(jsonFiles, tmp, ino)
        /\ jsonInodes' = Put(jsonInodes, ino, Truncated)
        /\ req' = [req EXCEPT ![r].wjFd = ino, ![r].pc = "wj_write"]
  /\ UNCHANGED <<chunkFiles, inflight, blobs, storeVars, memVars>>

\* The text is written through the descriptor and the file is closed.
WriteJsonWrite(r) ==
  /\ req[r].pc = "wj_write"
  /\ LET q  == req[r]
         rq == [req EXCEPT ![r].wjFd = NoIno, ![r].pc = "wj_rename"]
     IN /\ req' = rq
        /\ jsonInodes' = CollectJson([jsonInodes EXCEPT ![q.wjFd] = Full(q.wjObj)],
                                     jsonFiles, rq)
  /\ UNCHANGED <<chunkFiles, inflight, blobs, jsonFiles, storeVars, memVars>>

\* fs.promises.rename(tmp, file); ENOENT when another writer has already
\* renamed the shared tmp path away, which the handler's catch turns
\* into a 500 reply.
WriteJsonRename(r) ==
  /\ req[r].pc = "wj_rename"
  /\ LET q   == req[r]
         tmp == TmpPathOf(q.wjFile)
     IN IF Has(jsonFiles, tmp)
        THEN LET jf == Del(Put(jsonFiles, q.wjFile, jsonFiles[tmp]), tmp)
                 rq == [req EXCEPT ![r].pc = "wj_done"]
             IN /\ jsonFiles' = jf
                /\ req' = rq
                /\ jsonInodes' = CollectJson(jsonInodes, jf, rq)
        ELSE /\ req' = [req EXCEPT ![r] = Finish(req[r], [status |-> 500])]
             /\ UNCHANGED <<jsonFiles, jsonInodes>>
  /\ UNCHANGED <<chunkFiles, inflight, blobs, storeVars, memVars>>

\* ------------------------------------------------------------------
\* Content hash
\* ------------------------------------------------------------------
\* sha256 of a byte string, taken as collision free: distinct byte strings
\* (bytes 0..7) get distinct digests.
RECURSIVE Digest(_, _)
Digest(acc, bytes) ==
  IF bytes = <<>> THEN acc ELSE Digest(acc * 8 + Head(bytes), Tail(bytes))
Sha256(bytes) == Digest(1, bytes)

\* ------------------------------------------------------------------
\* Serial reservation: serialPaths, isRealSerialUsed, reserveSerialPath
\* ------------------------------------------------------------------
ProbeLimit == 4      \* stands for the 1e6 candidates of reserveSerialPath

\* An entry name `${name}_${prefix}-${NNNN}${ext}` of uploadDir.
EntryName(name, prefix, n, ext) ==
  [owner |-> name, prefix |-> prefix, n |-> n, ext |-> ext]
PrefixOf(isVideo) == IF isVideo THEN "VID" ELSE "IMG"
LockDirOf(name, prefix, n)      == EntryName(name, prefix, n, ".lock")
FinalPathOf(name, prefix, n, ext) == EntryName(name, prefix, n, ext)

\* "ignore control files"
ControlExts == {".lock", ".serial"}

\* isRealSerialUsed(baseDir, baseNoExt) on a readdir snapshot
isRealSerialUsed(dir, name, prefix, n) ==
  \E nm \in DOMAIN dir :
    /\ nm.owner = name /\ nm.prefix = prefix /\ nm.n = n
    /\ nm.ext \notin ControlExts

\* What the request is allocating for: the finalize request itself, or the
\* staged file number k of a direct upload.
CurItem(q) ==
  IF q.kind = "direct" THEN q.staged[q.k]
  ELSE [sha256 |-> q.sha256, ext |-> q.ext, isVideo |-> q.isVideo]
\* The temp file the request moves into place: the staged file of a direct
\* upload (a name unique to the part) or finalize's ".merge.<uuid>" file.
CurTmp(r, q) == IF q.kind = "direct" THEN <<r, q.k>> ELSE <<r, 0>>
CurOwner(q)  == users[q.authKey]
CurPrefix(q) == PrefixOf(CurItem(q).isVideo)
CurLock(q)   == LockDirOf(CurOwner(q), CurPrefix(q), q.n)
CurFinal(q)  == FinalPathOf(CurOwner(q), CurPrefix(q), q.n, CurItem(q).ext)

Reply500(q) == Finish(q, [status |-> 500])

\* A for loop that would step over a candidate
NextCandidateSkip(q) ==
  IF q.n + 2 < ProbeLimit THEN [q EXCEPT !.n = q.n + 2, !.pc = "rs_used1"]
  ELSE Reply500(q)
\* "continue" of the for loop: the next candidate, or the throw after the
\* last one, which the handler's catch answers with 500.
NextCandidate(q) ==
  IF q.n + 1 < ProbeLimit THEN [q EXCEPT !.n = q.n + 1, !.pc = "rs_used1"]
  ELSE Reply500(q)

\* "Skip used serials fast"
ReserveUsedCheck(r) ==
  /\ req[r].pc = "rs_used1"
  /\ LET q == req[r] IN
       req' = [req EXCEPT ![r] =
         IF isRealSerialUsed(uploadDir, CurOwner(q), CurPrefix(q), q.n)
         THEN NextCandidate(q)
         ELSE [q EXCEPT !.pc = "rs_mkdir"]]
  /\ UNCHANGED <<chunkVars, blobs, jsonVars, storeVars, memVars>>

\* A mkdir whose EEXIST would be thrown to the handler
ReserveMkdirThrow(r) ==
  /\ req[r].pc = "rs_mkdir"
  /\ LET q == req[r] IN
       IF Has(uploadDir, CurLock(q))
       THEN /\ req' = [req EXCEPT ![r] = Reply500(q)]
            /\ UNCHANGED uploadDir
       ELSE /\ req' = [req EXCEPT ![r].pc = "rs_used2"]
            /\ uploadDir' = Put(uploadDir, CurLock(q),
                                [kind |-> "lock", stale |-> FALSE, by |-> r])
  /\ UNCHANGED <<chunkVars, blobs, jsonVars, tmpFiles, memVars>>
\* mkdir(lockDir): creates the lock, or fails with EEXIST
ReserveMkdir(r) ==
  /\ req[r].pc = "rs_mkdir"
  /\ LET q == req[r] IN
       IF Has(uploadDir, CurLock(q))
       THEN /\ req' = [req EXCEPT ![r].pc = "rs_stat"]
            /\ UNCHANGED uploadDir
       ELSE /\ req' = [req EXCEPT ![r].pc = "rs_used2"]
            /\ uploadDir' = Put(uploadDir, CurLock(q),
                                [kind |-> "lock", stale |-> FALSE, by |-> r])
  /\ UNCHANGED <<chunkVars, blobs, jsonVars, tmpFiles, memVars>>

\* A stat that would find every lock young
ReserveStatLockYoung(r) ==
  /\ req[r].pc = "rs_stat"
  /\ req' = [req EXCEPT ![r] = NextCandidate(req[r])]
  /\ UNCHANGED <<chunkVars, blobs, jsonVars, storeVars, memVars>>
\* tryRemoveStaleLock: stat(lockDir) and the age test.  A lock that is
\* gone (stat throws) or young makes the caller go on to the next
\* candidate.
ReserveStatLock(r) ==
  /\ req[r].pc = "rs_stat"
  /\ LET q == req[r] IN
       req' = [req EXCEPT ![r] =
         IF Has(uploadDir, CurLock(q)) /\ uploadDir[CurLock(q)].kind = "lock"
            /\ uploadDir[CurLock(q)].stale
         THEN [q EXCEPT !.pc = "rs_rmstale"]
         ELSE NextCandidate(q)]
  /\ UNCHANGED <<chunkVars, blobs, jsonVars, storeVars, memVars>>

\* tryRemoveStaleLock: rmrf(lockDir) removes whatever is at the path now;
\* the caller then continues with the next candidate.
ReserveRemoveStale(r) ==
  /\ req[r].pc = "rs_rmstale"
  /\ LET q  == req[r]
         ud == Del(uploadDir, CurLock(q))
         rq == [req EXCEPT ![r] = NextCandidate(q)]
     IN /\ uploadDir' = ud
        /\ req' = rq
        /\ blobs' = CollectBlobs(blobs, chunkFiles, inflight, tmpFiles, ud, rq)
  /\ UNCHANGED <<chunkVars, jsonVars, tmpFiles, memVars>>

\* A reserveSerialPath that would return without the re-check
ReserveRecheckSkipped(r) ==
  /\ req[r].pc = "rs_used2"
  /\ req' = [req EXCEPT ![r].pc = "fr_rename"]
  /\ UNCHANGED <<chunkVars, blobs, jsonVars, storeVars, memVars>>
\* "Re-check after lock to avoid races": a used serial sends the request
\* to release its lock; otherwise reserveSerialPath returns and the caller
\* calls finalizeReservation.
ReserveRecheck(r) ==
  /\ req[r].pc = "rs_used2"
  /\ LET q == req[r] IN
       req' = [req EXCEPT ![r].pc =
         IF isRealSerialUsed(uploadDir, CurOwner(q), CurPrefix(q), q.n)
         THEN "rs_unlock" ELSE "fr_rename"]
  /\ UNCHANGED <<chunkVars, blobs, jsonVars, storeVars, memVars>>

\* A re-check that would go on without releasing the lock
ReserveUnlockKeep(r) ==
  /\ req[r].pc = "rs_unlock"
  /\ req' = [req EXCEPT ![r] = NextCandidate(req[r])]
  /\ UNCHANGED <<chunkVars, blobs, jsonVars, storeVars, memVars>>
\* "race used, unlock": rmrf(lockDir), then the next candidate
ReserveUnlock(r) ==
  /\ req[r].pc = "rs_unlock"
  /\ LET q  == req[r]
         ud == Del(uploadDir, CurLock(q))
         rq == [req EXCEPT ![r] = NextCandidate(q)]
     IN /\ uploadDir' = ud
        /\ req' = rq
        /\ blobs' = CollectBlobs(blobs, chunkFiles, inflight, tmpFiles, ud, rq)
  /\ UNCHANGED <<chunkVars, jsonVars, tmpFiles, memVars>>

\* ------------------------------------------------------------------
\* finalizeReservation and what the two callers do after it
\* ------------------------------------------------------------------
\* A log entry that would never carry the deduped flag
LogEntryPlain(q, savedName, hash, deduped) ==
  [authKey |-> q.authKey, fullName |-> users[q.authKey],
   savedName |-> savedName, hash |-> hash, deduped |-> FALSE]
\* The entry that uploadLog.push appends
LogEntry(q, savedName, hash, deduped) ==
  [authKey |-> q.authKey, fullName |-> users[q.authKey],
   savedName |-> savedName, hash |-> hash, deduped |-> deduped]

\* rename(tmpPath, finalPath).  It replaces a file that is at finalPath.
\* It fails when the temp file is gone or finalPath is a directory; the
\* copyFile fallback then fails for the same reason and the error is
\* thrown once the finally block has released the lock.
FinalizeRename(r) ==
  /\ req[r].pc = "fr_rename"
  /\ LET q     == req[r]
         tmp   == CurTmp(r, q)
         final == CurFinal(q)
         ok    == Has(tmpFiles, tmp)
                  /\ ~(Has(uploadDir, final) /\ uploadDir[final].kind = "lock")
         tf    == IF ok THEN Del(tmpFiles, tmp) ELSE tmpFiles
         ud    == IF ok THEN Put(uploadDir, final, [kind |-> "file", ino |-> tmpFiles[tmp]])
                  ELSE uploadDir
         rq    == [req EXCEPT ![r].frOk = ok, ![r].pc = "fr_unlock"]
     IN /\ tmpFiles' = tf
        /\ uploadDir' = ud
        /\ req' = rq
        /\ blobs' = CollectBlobs(blobs, chunkFiles, inflight, tf, ud, rq)
  /\ UNCHANGED <<chunkVars, jsonVars, memVars>>

\* A loop over the staged files that would never consult hashIndex
DirectIterateNoDedupe(q, index, log) ==
  IF q.k > Len(q.staged)
    THEN [q EXCEPT !.wjFile = logFile, !.wjObj = log, !.pc = "wj_open"]
  ELSE [q EXCEPT !.n = 0, !.pc = "rs_used1"]
\* The start of one iteration of "for (const s of staged)" of the direct
\* upload, up to its first await; after the last file the log is written.
DirectIterate(q, index, log) ==
  IF q.k > Len(q.staged)
    THEN [q EXCEPT !.wjFile = logFile, !.wjObj = log, !.pc = "wj_open"]
  ELSE IF Has(index, q.staged[q.k].sha256)
    THEN [q EXCEPT !.existing = index[q.staged[q.k].sha256], !.pc = "du_unlink"]
  ELSE [q EXCEPT !.n = 0, !.pc = "rs_used1"]

\* A finalizeReservation that would release the lock only after a
\* successful move
FinalizeUnlockOnSuccess(r) ==
  /\ req[r].pc = "fr_unlock"
  /\ LET q     == req[r]
         ud    == IF q.frOk THEN Del(uploadDir, CurLock(q)) ELSE uploadDir
         saved == CurFinal(q)
         hash  == CurItem(q).sha256
         hi    == Put(hashIndex, hash, saved)
         log   == Append(uploadLog, LogEntry(q, saved, hash, FALSE))
         rq    == [req EXCEPT ![r] =
                    IF ~q.frOk THEN Reply500(q)
                    ELSE IF q.kind = "direct"
                      THEN DirectIterate([q EXCEPT !.k = q.k + 1,
                                                   !.savedFiles = Append(@, saved)],
                                         hi, log)
                    ELSE [q EXCEPT !.wjFile = logFile, !.wjObj = log,
                                   !.existing = saved, !.pc = "wj_open"]]
     IN /\ uploadDir' = ud
        /\ req' = rq
        /\ blobs' = CollectBlobs(blobs, chunkFiles, inflight, tmpFiles, ud, rq)
        /\ hashIndex' = IF q.frOk THEN hi ELSE hashIndex
        /\ uploadLog' = IF q.frOk THEN log ELSE uploadLog
  /\ UNCHANGED <<chunkVars, jsonVars, tmpFiles>>
\* finally { rmrf(lockDir) }, then, in the caller: hashIndex.set,
\* uploadLog.push and either writeJsonAtomic(logFile) (finalize) or the
\* next staged file (direct upload).
FinalizeUnlock(r) ==
  /\ req[r].pc = "fr_unlock"
  /\ LET q     == req[r]
         ud    == Del(uploadDir, CurLock(q))
         saved == CurFinal(q)
         hash  == CurItem(q).sha256
         hi    == Put(hashIndex, hash, saved)
         log   == Append(uploadLog, LogEntry(q, saved, hash, FALSE))
         rq    == [req EXCEPT ![r] =
                    IF ~q.frOk THEN Reply500(q)
                    ELSE IF q.kind = "direct"
                      THEN DirectIterate([q EXCEPT !.k = q.k + 1,
                                                   !.savedFiles = Append(@, saved)],
                                         hi, log)
                    ELSE [q EXCEPT !.wjFile = logFile, !.wjObj = log,
                                   !.existing = saved, !.pc = "wj_open"]]
     IN /\ uploadDir' = ud
        /\ req' = rq
        /\ blobs' = CollectBlobs(blobs, chunkFiles, inflight, tmpFiles, ud, rq)
        /\ hashIndex' = IF q.frOk THEN hi ELSE hashIndex
        /\ uploadLog' = IF q.frOk THEN log ELSE uploadLog
  /\ UNCHANGED <<chunkVars, jsonVars, tmpFiles>>

\* ------------------------------------------------------------------
\* POST /upload-manifest: assembleChunksToTemp, dedupe, reserve, log
\* ------------------------------------------------------------------
\* "i < totalChunks" for the JS value of the manifest's totalChunks
LessThanTotal(i, tot) == IsInt(tot) /\ i < tot.v
\* "!manifest.totalChunks": 0, NaN, null and a missing field are falsy
Falsy(x) == ~IsInt(x) \/ x.v = 0

\* The loop head of assembleChunksToTemp for chunk i: existsSync(part),
\* "Missing chunk" thrown (out.destroy(), then the handler's 500), or the
\* read of the part; after the last part, out.end().
AssembleLoop(q) ==
  IF ~LessThanTotal(q.i, q.totalChunks) THEN [q EXCEPT !.pc = "as_finish"]
  ELSE IF ~Has(chunkFiles, getChunkPath(q.uploadId, Num(q.i)))
    THEN Reply500(q)
  ELSE [q EXCEPT !.pc = "as_read"]

\* The manifest field of the request is parsed and checked, the owner is
\* looked up; assembleChunksToTemp opens the output file and enters its
\* loop.
FinalizeStart(r, key, u, tot, ext, isVideo) ==
  /\ req[r].pc = "idle"
  /\ LET q0 == [IdleReq EXCEPT !.kind = "finalize", !.authKey = key,
                  !.uploadId = u, !.totalChunks = tot, !.ext = ext,
                  !.isVideo = isVideo]
         bad == u = "" \/ Falsy(tot) \/ key = ""
     IN IF bad \/ ~Has(users, key)
        THEN /\ req' = [req EXCEPT ![r] =
                  Finish(q0, [status |-> IF bad THEN 400 ELSE 403])]
             /\ UNCHANGED <<tmpFiles, blobs>>
        ELSE /\ req' = [req EXCEPT ![r] = AssembleLoop([q0 EXCEPT !.i = 0, !.fd = <<r, 0>>])]
             /\ tmpFiles' = Put(tmpFiles, <<r, 0>>, <<r, 0>>)
             /\ blobs' = Put(blobs, <<r, 0>>, <<>>)
  /\ UNCHANGED <<chunkVars, jsonVars, uploadDir, memVars>>

\* A pipe that would put each part in front of what was written before
PipeIntoFront(out, bytes) == bytes \o out
\* r.pipe(out, { end: false }): the bytes of the part are written after
\* what the output file already holds.
PipeInto(out, bytes) == out \o bytes

\* createReadStream(part): its bytes go to the hasher and, through the
\* pipe, to the output file.  A part removed since existsSync makes the
\* stream fail.
AssembleRead(r) ==
  /\ req[r].pc = "as_read"
  /\ LET q    == req[r]
         part == getChunkPath(q.uploadId, Num(q.i))
     IN IF Has(chunkFiles, part)
        THEN LET bytes == blobs[chunkFiles[part]] IN
             /\ req' = [req EXCEPT ![r].hasher = q.hasher \o bytes,
                                   ![r].pc = "as_unlink"]
             /\ blobs' = [blobs EXCEPT ![q.fd] = PipeInto(@, bytes)]
        ELSE LET rq == [req EXCEPT ![r] = Reply500(q)] IN
             /\ req' = rq
             /\ blobs' = CollectBlobs(blobs, chunkFiles, inflight, tmpFiles, uploadDir, rq)
  /\ UNCHANGED <<chunkVars, jsonVars, storeVars, memVars>>

\* A stream end that would leave the part in place
AssembleUnlinkKeep(r) ==
  /\ req[r].pc = "as_unlink"
  /\ LET q    == req[r]
         step == [q EXCEPT !.i = q.i + 1]
         nq   == IF ~LessThanTotal(step.i, step.totalChunks)
                   THEN [step EXCEPT !.pc = "as_finish"]
                 ELSE IF ~Has(chunkFiles, getChunkPath(q.uploadId, Num(step.i)))
                   THEN Reply500(step)
                 ELSE [step EXCEPT !.pc = "as_read"]
         rq   == [req EXCEPT ![r] = nq]
     IN /\ chunkFiles' = chunkFiles
        /\ req' = rq
        /\ blobs' = CollectBlobs(blobs, chunkFiles, inflight, tmpFiles, uploadDir, rq)
  /\ UNCHANGED <<inflight, jsonVars, storeVars, memVars>>
\* r.on('end'): fs.unlink(part), then the next turn of the loop
AssembleUnlink(r) ==
  /\ req[r].pc = "as_unlink"
  /\ LET q    == req[r]
         part == getChunkPath(q.uploadId, Num(q.i))
         cf   == Del(chunkFiles, part)
         step == [q EXCEPT !.i = q.i + 1]
         nq   == IF ~LessThanTotal(step.i, step.totalChunks)
                   THEN [step EXCEPT !.pc = "as_finish"]
                 ELSE IF ~Has(cf, getChunkPath(q.uploadId, Num(step.i)))
                   THEN Reply500(step)
                 ELSE [step EXCEPT !.pc = "as_read"]
         rq   == [req EXCEPT ![r] = nq]
     IN /\ chunkFiles' = cf
        /\ req' = rq
        /\ blobs' = CollectBlobs(blobs, cf, inflight, tmpFiles, uploadDir, rq)
  /\ UNCHANGED <<inflight, jsonVars, storeVars, memVars>>

\* out 'finish'; the digest; "Global dedupe by content hash only":
\* hashIndex.get(sha256) decides between the dedupe branch and
\* reserveSerialPath.
AssembleFinish(r) ==
  /\ req[r].pc = "as_finish"
  /\ LET q   == req[r]
         sha == Sha256(q.hasher)
         rq  == [req EXCEPT ![r] =
                  IF Has(hashIndex, sha)
                  THEN [q EXCEPT !.sha256 = sha, !.fd = NoIno, !.deduped = TRUE,
                                 !.existing = hashIndex[sha], !.pc = "dd_unlink_tmp"]
                  ELSE [q EXCEPT !.sha256 = sha, !.fd = NoIno, !.n = 0,
                                 !.pc = "rs_used1"]]
     IN /\ req' = rq
        /\ blobs' = CollectBlobs(blobs, chunkFiles, inflight, tmpFiles, uploadDir, rq)
  /\ UNCHANGED <<chunkVars, jsonVars, storeVars, memVars>>

\* dedupe hit: unlink(tempOut)
DedupeUnlinkTemp(r) ==
  /\ req[r].pc = "dd_unlink_tmp"
  /\ LET tf == Del(tmpFiles, <<r, 0>>)
         rq == [req EXCEPT ![r].pc = "dd_unlink_mf"]
     IN /\ tmpFiles' = tf
        /\ req' = rq
        /\ blobs' = CollectBlobs(blobs, chunkFiles, inflight, tf, uploadDir, rq)
  /\ UNCHANGED <<chunkVars, jsonVars, uploadDir, memVars>>

\* dedupe hit: unlink(manifest), uploadLog.push of the deduped entry and
\* the call of writeJsonAtomic(logFile, uploadLog)
DedupeUnlinkManifest(r) ==
  /\ req[r].pc = "dd_unlink_mf"
  /\ LET q   == req[r]
         jf  == Del(jsonFiles, getManifestPath(q.uploadId))
         log == Append(uploadLog, LogEntry(q, q.existing, q.sha256, TRUE))
         rq  == [req EXCEPT ![r].wjFile = logFile, ![r].wjObj = log,
                            ![r].pc = "wj_open"]
     IN /\ jsonFiles' = jf
        /\ jsonInodes' = CollectJson(jsonInodes, jf, rq)
        /\ uploadLog' = log
        /\ req' = rq
  /\ UNCHANGED <<chunkVars, blobs, storeVars, hashIndex>>

\* After writeJsonAtomic(logFile): the dedupe branch replies at once; the
\* other branch unlinks the manifest ("Clean manifest") and replies.
FinalizeReply(r) ==
  /\ req[r].pc = "wj_done"
  /\ req[r].kind = "finalize"
  /\ LET q       == req[r]
         deduped == q.deduped
         jf      == IF deduped THEN jsonFiles
                    ELSE Del(jsonFiles, getManifestPath(q.uploadId))
         rq      == [req EXCEPT ![r] = Finish(q,
                        IF deduped
                        THEN [status |-> 200, deduped |-> TRUE, existing |-> q.existing]
                        ELSE [status |-> 200, deduped |-> FALSE, savedAs |-> q.existing,
                              sha256 |-> q.sha256])]
     IN /\ jsonFiles' = jf
        /\ jsonInodes' = CollectJson(jsonInodes, jf, rq)
        /\ req' = rq
  /\ UNCHANGED <<chunkVars, blobs, storeVars, memVars>>

\* ------------------------------------------------------------------
\* POST /upload: direct upload of whole files
\* ------------------------------------------------------------------
\* pipeline(part.file, hashingTee, createWriteStream(tmpPath)) for file
\* part k: the temp name is unique to the part.
StagePart(r, q, k) ==
  [q EXCEPT !.staged = Append(@, [sha256 |-> Sha256(q.files[k].bytes),
                                  ext |-> q.files[k].ext,
                                  isVideo |-> q.files[k].isVideo])]

\* After the last part: the authKey check, then the first staged file.
DirectAfterParts(q) ==
  IF q.authKey = "" \/ ~Has(users, q.authKey)
  THEN [q EXCEPT !.pc = "du_reject"]
  ELSE DirectIterate([q EXCEPT !.k = 1], hashIndex, uploadLog)

DirectStagedStep(r, q0) ==
  LET k  == Len(q0.staged) + 1
      q1 == StagePart(r, q0, k)
      nq == IF k = Len(q0.files) THEN DirectAfterParts(q1)
            ELSE [q1 EXCEPT !.pc = "du_stage"]
  IN /\ req' = [req EXCEPT ![r] = nq]
     /\ tmpFiles' = Put(tmpFiles, <<r, k>>, <<r, k>>)
     /\ blobs' = Put(blobs, <<r, k>>, q0.files[k].bytes)

\* The request arrives and its first file part is staged.
DirectStart(r, key, files) ==
  /\ req[r].pc = "idle"
  /\ files # <<>>
  /\ DirectStagedStep(r, [IdleReq EXCEPT !.kind = "direct", !.authKey = key,
                                         !.files = files])
  /\ UNCHANGED <<chunkVars, jsonVars, uploadDir, memVars>>

\* A further file part is staged.
DirectStage(r) ==
  /\ req[r].pc = "du_stage"
  /\ DirectStagedStep(r, req[r])
  /\ UNCHANGED <<chunkVars, jsonVars, uploadDir, memVars>>

\* A rejection that would leave the staged files in place
DirectRejectKeep(r) ==
  /\ req[r].pc = "du_reject"
  /\ req' = [req EXCEPT ![r] = Finish(req[r], [status |-> 403])]
  /\ UNCHANGED <<chunkVars, jsonVars, blobs, storeVars, memVars>>
\* Invalid authKey: every staged file is unlinked, 403.
DirectReject(r) ==
  /\ req[r].pc = "du_reject"
  /\ LET q  == req[r]
         tf == [x \in {y \in DOMAIN tmpFiles : y[1] # r} |-> tmpFiles[x]]
         rq == [req EXCEPT ![r] = Finish(q, [status |-> 403])]
     IN /\ tmpFiles' = tf
        /\ req' = rq
        /\ blobs' = CollectBlobs(blobs, chunkFiles, inflight, tf, uploadDir, rq)
  /\ UNCHANGED <<chunkVars, jsonVars, uploadDir, memVars>>

\* Dedupe hit for staged file k: unlink(s.tmpPath), uploadLog.push of the
\* deduped entry, then the next staged file.
DirectDedupe(r) ==
  /\ req[r].pc = "du_unlink"
  /\ LET q   == req[r]
         tf  == Del(tmpFiles, <<r, q.k>>)
         log == Append(uploadLog, LogEntry(q, q.existing, q.staged[q.k].sha256, TRUE))
         rq  == [req EXCEPT ![r] = DirectIterate([q EXCEPT !.k = q.k + 1], hashIndex, log)]
     IN /\ tmpFiles' = tf
        /\ uploadLog' = log
        /\ req' = rq
        /\ blobs' = CollectBlobs(blobs, chunkFiles, inflight, tf, uploadDir, rq)
  /\ UNCHANGED <<chunkVars, jsonVars, uploadDir, hashIndex>>

\* After writeJsonAtomic(logFile): { success: true, files: savedFiles }
DirectReply(r) ==
  /\ req[r].pc = "wj_done"
  /\ req[r].kind = "direct"
  /\ req' = [req EXCEPT ![r] = Finish(req[r], [status |-> 200, files |-> req[r].savedFiles])]
  /\ UNCHANGED <<chunkVars, blobs, jsonVars, storeVars, memVars>>

\* ------------------------------------------------------------------
\* Initial states
\* ------------------------------------------------------------------
\* No request yet.  The store is empty, or holds what one earlier upload
\* by Ann left: her file with bytes <<1>>, its log entry (in memory and in
\* the log file) and the hashIndex entry rebuilt from the log.
FirstName  == EntryName("Ann", "IMG", 0, ".jpg")
FirstEntry == [authKey |-> "k1", fullName |-> "Ann", savedName |-> FirstName,
               hash |-> Sha256(<<1>>), deduped |-> FALSE]

EmptyStore ==
  /\ tmpFiles = Empty
  /\ uploadDir = Empty
  /\ hashIndex = Empty
  /\ uploadLog = <<>>
  /\ jsonFiles = Empty
  /\ jsonInodes = Empty
  /\ blobs = Empty

OneFileStore ==
  /\ tmpFiles = Empty
  /\ uploadDir = Put(Empty, FirstName, [kind |-> "file", ino |-> <<0, 1>>])
  /\ hashIndex = Put(Empty, Sha256(<<1>>), FirstName)
  /\ uploadLog = <<FirstEntry>>
  /\ jsonFiles = Put(Empty, logFile, <<0, 1>>)
  /\ jsonInodes = Put(Empty, <<0, 1>>, Full(<<FirstEntry>>))
  /\ blobs = Put(Empty, <<0, 1>>, <<1>>)

Init ==
  /\ req = [r \in ReqIds |-> IdleReq]
  /\ chunkFiles = Empty
  /\ inflight = Empty
  /\ EmptyStore \/ OneFileStore

\* The server has started with an empty store.
InitChunks ==
  /\ req = [r \in ReqIds |-> IdleReq]
  /\ chunkFiles = Empty
  /\ inflight = Empty
  /\ EmptyStore

\* ------------------------------------------------------------------
\* Scheduling
\* ------------------------------------------------------------------
\* Request slots are taken in order.
InOrder(r) == IF r = 1 THEN TRUE ELSE req[r - 1].pc # "idle"
\* No request is in flight.
Quiet == \A r \in ReqIds : req[r].pc \in {"idle", "done"}

\* The steps of a chunk request whose fields came before the file part
InPlaceSteps(r) ==
  \/ ChunkWrite(r)
  \/ ChunkValidate(r)
  \/ ChunkManifestExists(r)
  \/ ChunkManifestRead(r)
  \/ ChunkReply(r)

ChunkSteps(r) ==
  \/ InPlaceSteps(r)
  \/ ChunkRenameTemp(r)

WriteJsonSteps(r) ==
  \/ WriteJsonOpen(r)
  \/ WriteJsonWrite(r)
  \/ WriteJsonRename(r)

AssembleSteps(r) ==
  \/ AssembleRead(r)
  \/ AssembleUnlink(r)
  \/ AssembleFinish(r)
  \/ DedupeUnlinkTemp(r)
  \/ DedupeUnlinkManifest(r)
  \/ FinalizeReply(r)

\* The steps of reserveSerialPath and finalizeReservation taken when no
\* lock is met
ReserveSteps(r) ==
  \/ ReserveUsedCheck(r)
  \/ ReserveMkdir(r)
  \/ ReserveRecheck(r)
  \/ FinalizeRename(r)
  \/ FinalizeUnlock(r)

\* ------------------------------------------------------------------
\* Spec: one client uploads "u1" in chunks and finalizes it; each request
\* is sent after the reply to the one before.
\* ------------------------------------------------------------------
Payloads == {<<1>>, <<2>>}

SubmitChunk(r) ==
  /\ Quiet /\ InOrder(r)
  /\ \E idx \in {Num(0), Num(1)}, tot \in {Num(1), Num(2)},
        ff \in BOOLEAN, pay \in Payloads :
       ChunkStart(r, "k1", "u1", idx, tot, ff, pay)

SubmitFinalize(r) ==
  /\ Quiet /\ InOrder(r)
  /\ \E tot \in {Num(1), Num(2)} :
       FinalizeStart(r, "k1", "u1", tot, ".jpg", FALSE)

Next ==
  \E r \in ReqIds :
    \/ SubmitChunk(r)
    \/ SubmitFinalize(r)
    \/ ChunkSteps(r)
    \/ WriteJsonSteps(r)
    \/ AssembleSteps(r)
    \/ ReserveSteps(r)

Spec == Init /\ [][Next]_vars

\* ------------------------------------------------------------------
\* SpecFields: chunk submissions for "u1", one after the other, whose
\* index and totalChunks fields carry whatever text the client wrote:
\* parseInt yields an integer of either sign or NaN.
\* ------------------------------------------------------------------
SubmitAnyFields(r) ==
  /\ Quiet /\ InOrder(r)
  /\ \E idx \in {Num(-1), Num(0), Num(1), NaN}, tot \in {Num(1), Num(2), NaN} :
       ChunkStart(r, "k1", "u1", idx, tot, TRUE, <<1>>)

NextFields ==
  \E r \in ReqIds :
    \/ SubmitAnyFields(r)
    \/ InPlaceSteps(r)
    \/ WriteJsonSteps(r)

SpecFields == InitChunks /\ [][NextFields]_vars

\* ------------------------------------------------------------------
\* SpecChunks: chunk submissions for "u1" arrive while earlier ones are
\* still being handled, the fields before the file part as the client
\* sends them.  The slots 1..MaxInFlight are used.
\* ------------------------------------------------------------------
MaxInFlight == 2

SubmitChunkAnytime(r) ==
  /\ r <= MaxInFlight
  /\ InOrder(r)
  /\ \E idx \in {Num(0), Num(1)}, tot \in {Num(2), Num(3)} :
       ChunkStart(r, "k1", "u1", idx, tot, TRUE, <<1>>)

NextChunks ==
  \E r \in ReqIds :
    \/ SubmitChunkAnytime(r)
    \/ InPlaceSteps(r)
    \/ WriteJsonSteps(r)

SpecChunks == InitChunks /\ [][NextChunks]_vars

\* ------------------------------------------------------------------
\* SpecResubmit: chunk 0 of "u1" is submitted and answered; then the same
\* index is submitted again, by requests that may overlap each other.
\* ------------------------------------------------------------------
LongPayloads == {<<1, 1>>, <<2, 2>>}

FirstSubmit(r) ==
  /\ r = 1
  /\ \E pay \in LongPayloads :
       ChunkStart(r, "k1", "u1", Num(0), Num(2), TRUE, pay)

Resubmit(r) ==
  /\ r > 1 /\ InOrder(r)
  /\ req[1].pc = "done"
  /\ \E pay \in LongPayloads :
       ChunkStart(r, "k1", "u1", Num(0), Num(2), TRUE, pay)

NextResubmit ==
  \E r \in ReqIds :
    \/ FirstSubmit(r)
    \/ Resubmit(r)
    \/ InPlaceSteps(r)
    \/ ChunkAbort(r)
    \/ WriteJsonSteps(r)

SpecResubmit == InitChunks /\ [][NextResubmit]_vars

\* ------------------------------------------------------------------
\* SpecDedupe and SpecStore: whole uploads.  "u1" and "u2" have been
\* received as one chunk each, with the same bytes <<2>>; requests
\* finalize them or upload a file directly.  In SpecDedupe a request is
\* sent after the reply to the one before; in SpecStore the requests of
\* the slots 1..MaxInFlight overlap.
\* ------------------------------------------------------------------
ReceivedUpload(u) ==
  [uploadId |-> u, totalChunks |-> Num(1), received |-> <<Num(0)>>]

InitStore ==
  /\ req = [r \in ReqIds |-> IdleReq]
  /\ chunkFiles = Put(Put(Empty, getChunkPath("u1", Num(0)), <<0, 2>>),
                      getChunkPath("u2", Num(0)), <<0, 3>>)
  /\ inflight = Empty
  /\ blobs = Put(Put(Empty, <<0, 2>>, <<2>>), <<0, 3>>, <<2>>)
  /\ jsonFiles = Put(Put(Empty, getManifestPath("u1"), <<0, 2>>),
                     getManifestPath("u2"), <<0, 3>>)
  /\ jsonInodes = Put(Put(Empty, <<0, 2>>, Full(ReceivedUpload("u1"))),
                      <<0, 3>>, Full(ReceivedUpload("u2")))
  /\ tmpFiles = Empty
  /\ uploadDir = Empty
  /\ hashIndex = Empty
  /\ uploadLog = <<>>

OneFile(bytes) == <<[bytes |-> bytes, ext |-> ".jpg", isVideo |-> FALSE]>>

SubmitUpload(r, keys) ==
  /\ InOrder(r)
  /\ \E key \in keys :
       \/ \E u \in UploadIds : FinalizeStart(r, key, u, Num(1), ".jpg", FALSE)
       \/ \E bytes \in {<<1>>, <<2>>} : DirectStart(r, key, OneFile(bytes))

DirectSteps(r) ==
  \/ DirectDedupe(r)
  \/ DirectReply(r)

SubmitUploadInTurn(r) == Quiet /\ SubmitUpload(r, {"k1", "k2", "zz"})
SubmitUploadAnytime(r) == r <= MaxInFlight /\ SubmitUpload(r, {"k1"})

NextDedupe ==
  \E r \in ReqIds :
    \/ SubmitUploadInTurn(r)
    \/ AssembleSteps(r)
    \/ ReserveSteps(r)
    \/ DirectSteps(r)
    \/ DirectReject(r)
    \/ WriteJsonSteps(r)

SpecDedupe == InitStore /\ [][NextDedupe]_vars

NextStore ==
  \E r \in ReqIds :
    \/ SubmitUploadAnytime(r)
    \/ AssembleSteps(r)
    \/ ReserveSteps(r)
    \/ ReserveStatLock(r)
    \/ ReserveUnlock(r)
    \/ DirectSteps(r)
    \/ WriteJsonSteps(r)

SpecStore == InitStore /\ [][NextStore]_vars

\* ------------------------------------------------------------------
\* SpecAlloc: Ann's direct uploads of files that all differ, so that each
\* file is allocated a serial, run side by side.  A reservation marker
\* for serial 0, older than LOCK_TTL, was left by a writer that crashed.
\* ------------------------------------------------------------------
StaleLock == [kind |-> "lock", stale |-> TRUE, by |-> 0]

InitAlloc ==
  /\ req = [r \in ReqIds |-> IdleReq]
  /\ chunkFiles = Empty
  /\ inflight = Empty
  /\ blobs = Empty
  /\ jsonFiles = Empty
  /\ jsonInodes = Empty
  /\ tmpFiles = Empty
  /\ uploadDir = Put(Empty, LockDirOf("Ann", "IMG", 0), StaleLock)
  /\ hashIndex = Empty
  /\ uploadLog = <<>>

\* A PNG image with the given bytes
PngFile(bytes) == <<[bytes |-> bytes, ext |-> ".png", isVideo |-> FALSE]>>

SubmitFiles(r) ==
  /\ InOrder(r)
  /\ \E files \in {OneFile(<<r>>)} \cup
                   (IF r = 1 THEN {OneFile(<<r>>) \o PngFile(<<r, r>>)} ELSE {}) :
       DirectStart(r, "k1", files)

AllocSteps(r) ==
  \/ ReserveSteps(r)
  \/ ReserveStatLock(r)
  \/ ReserveRemoveStale(r)
  \/ ReserveUnlock(r)

NextAlloc ==
  \E r \in ReqIds :
    \/ SubmitFiles(r)
    \/ DirectStage(r)
    \/ AllocSteps(r)
    \/ WriteJsonSteps(r)
    \/ DirectReply(r)

SpecAlloc == InitAlloc /\ [][NextAlloc]_vars

\* ------------------------------------------------------------------
\* SpecReclaim: as SpecAlloc, with one file per upload in the slots
\* 1..MaxInFlight.  The event loop does not stop while the continuation
\* of a completed I/O operation is pending: as long as some request can
\* take a step, some request eventually takes one.
\* ------------------------------------------------------------------
SubmitOneFile(r) ==
  /\ r <= MaxInFlight
  /\ InOrder(r)
  /\ DirectStart(r, "k1", OneFile(<<r>>))

RequestStep(r) ==
  \/ AllocSteps(r)
  \/ WriteJsonSteps(r)
  \/ DirectReply(r)

NextReclaim ==
  \E r \in ReqIds :
    \/ SubmitOneFile(r)
    \/ RequestStep(r)

SpecReclaim ==
  /\ InitAlloc
  /\ [][NextReclaim]_vars
  /\ WF_vars(\E r \in ReqIds : RequestStep(r))

\* ------------------------------------------------------------------
\* SpecAuth: submissions of chunk 0 of "u1", one after the other, by
\* senders whose authKey field is a known key, an unknown key or missing.
\* ------------------------------------------------------------------
AuthKeys == {"k1", "zz", ""}

SubmitWithKey(r) ==
  /\ Quiet /\ InOrder(r)
  /\ \E key \in AuthKeys, ff \in BOOLEAN, pay \in Payloads :
       ChunkStart(r, key, "u1", Num(0), Num(1), ff, pay)

NextAuth ==
  \E r \in ReqIds :
    \/ SubmitWithKey(r)
    \/ ChunkSteps(r)
    \/ WriteJsonSteps(r)

SpecAuth == Init /\ [][NextAuth]_vars

\* ------------------------------------------------------------------
\* SpecRelease: as SpecReclaim, without the fairness condition; the file
\* name that a client sends ends in ".jpg" or in ".lock", and the first
\* upload may carry one file of each kind.  For the latter
\* the final path is the path of the marker itself, a directory, so the
\* rename and the copy fallback of finalizeReservation both fail.
\* ------------------------------------------------------------------
FileNamed(bytes, ext) == <<[bytes |-> bytes, ext |-> ext, isVideo |-> FALSE]>>

SubmitNamedFile(r) ==
  /\ r <= MaxInFlight
  /\ InOrder(r)
  /\ \E ext \in {".jpg", ".lock"} : DirectStart(r, "k1", FileNamed(<<r>>, ext))

\* The first request may be a batch: a ".jpg" and then a ".lock"
SubmitBatch(r) ==
  /\ r = 1
  /\ DirectStart(r, "k1", FileNamed(<<r>>, ".jpg") \o FileNamed(<<r, r>>, ".lock"))

NextRelease ==
  \E r \in ReqIds :
    \/ SubmitNamedFile(r)
    \/ SubmitBatch(r)
    \/ DirectStage(r)
    \/ AllocSteps(r)
    \/ WriteJsonSteps(r)
    \/ DirectReply(r)

SpecRelease == InitAlloc /\ [][NextRelease]_vars

\* ------------------------------------------------------------------
\* GET /upload-status
\* ------------------------------------------------------------------
\* A status handler that would answer every readable manifest with []
StatusReadEmpty(r) ==
  /\ req[r].pc = "st_read"
  /\ req' = [req EXCEPT ![r] = Finish(req[r], [status |-> 200, received |-> <<>>])]
  /\ UNCHANGED <<chunkVars, blobs, jsonVars, storeVars, memVars>>
\* JSON.parse(await readFile(manifestPath)) inside try/catch: the reply is
\* { received: m.received || [] }, or 500 when the file is gone or does
\* not parse.
StatusRead(r) ==
  /\ req[r].pc = "st_read"
  /\ LET q    == req[r]
         file == getManifestPath(q.uploadId)
         text == IF Has(jsonFiles, file) THEN jsonInodes[jsonFiles[file]] ELSE Truncated
     IN req' = [req EXCEPT ![r] = Finish(q,
                  IF text.full THEN [status |-> 200, received |-> text.val.received]
                  ELSE [status |-> 500])]
  /\ UNCHANGED <<chunkVars, blobs, jsonVars, storeVars, memVars>>

\* The query arrives: 400 without an id, { received: [] } when
\* existsSync(manifestPath) is false, otherwise the read is awaited.
StatusStart(r, id) ==
  /\ req[r].pc = "idle"
  /\ LET q == [IdleReq EXCEPT !.kind = "status", !.uploadId = id] IN
       req' = [req EXCEPT ![r] =
         IF id = "" THEN Finish(q, [status |-> 400])
         ELSE IF ~Has(jsonFiles, getManifestPath(id))
           THEN Finish(q, [status |-> 200, received |-> <<>>])
         ELSE [q EXCEPT !.pc = "st_read"]]
  /\ UNCHANGED <<chunkVars, blobs, jsonVars, storeVars, memVars>>

\* ------------------------------------------------------------------
\* SpecStatus: a client sends the chunks of "u1" one after the other;
\* status queries arrive at any time.
\* ------------------------------------------------------------------
NoChunkInFlight ==
  \A r \in ReqIds : req[r].kind = "chunk" => req[r].pc = "done"

SubmitChunkAlone(r) ==
  /\ NoChunkInFlight /\ InOrder(r)
  /\ \E idx \in {Num(0), Num(1)} :
       ChunkStart(r, "k1", "u1", idx, Num(2), TRUE, <<1>>)

QueryStatus(r) ==
  /\ InOrder(r)
  /\ \E id \in {"u1", ""} : StatusStart(r, id)

NextStatus ==
  \E r \in ReqIds :
    \/ SubmitChunkAlone(r)
    \/ QueryStatus(r)
    \/ StatusRead(r)
    \/ InPlaceSteps(r)
    \/ WriteJsonSteps(r)

SpecStatus == InitChunks /\ [][NextStatus]_vars

\* ------------------------------------------------------------------
\* cleanupOnce: one run of the janitor, section after section.  Each
\* section is wrapped in its own try/catch; opendir or the directory
\* iteration may throw, before or after some entries were removed.
\* A run occupies a slot of req like a request does; its reply field
\* records the sections that threw.
\* ------------------------------------------------------------------
\* Entries that the initial state holds were last touched more than
\* TMP_TTL ago; what the requests of a behaviour write is younger.
IsLeftover(ino) == ino[1] = 0
OldEntries(dir) == {p \in DOMAIN dir : IsLeftover(dir[p])}
StaleLocks(ud) == {nm \in DOMAIN ud : ud[nm].kind = "lock" /\ ud[nm].stale}
OldSerialFiles(ud) ==
  {nm \in DOMAIN ud : ud[nm].kind = "file" /\ nm.ext = ".serial" /\ IsLeftover(ud[nm].ino)}
Without(dir, S) == [x \in (DOMAIN dir) \ S |-> dir[x]]

\* A run in which a section that throws would end the run
SectionEndAbort(q, section, fail, next) ==
  LET failed == IF fail THEN q.reply.failed \cup {section} ELSE q.reply.failed IN
  IF next = "done" \/ fail THEN Finish(q, [status |-> 0, failed |-> failed])
  ELSE [q EXCEPT !.reply = [status |-> 0, failed |-> failed], !.pc = next]
\* The section ends: thrown or not, the run goes on with the next section
SectionEnd(q, section, fail, next) ==
  LET failed == IF fail THEN q.reply.failed \cup {section} ELSE q.reply.failed IN
  IF next = "done" THEN Finish(q, [status |-> 0, failed |-> failed])
  ELSE [q EXCEPT !.reply = [status |-> 0, failed |-> failed], !.pc = next]

\* What a section removes: every entry that is due, or, when it throws,
\* the entries it had removed by then.
Removed(due, fail) == IF fail THEN SUBSET due ELSE {due}

JanitorStart(r) ==
  /\ req[r].pc = "idle"
  /\ req' = [req EXCEPT ![r] = [IdleReq EXCEPT !.kind = "janitor", !.pc = "jn_locks",
                                  !.reply = [status |-> 0, failed |-> {}]]]
  /\ UNCHANGED <<chunkVars, blobs, jsonVars, storeVars, memVars>>

\* 1) Stale lock dirs + legacy .serial files: the directories whose name
\* ends in ".lock" and the files whose name ends in ".serial", older
\* than LOCK_TTL
JanitorLocks(r) ==
  /\ req[r].pc = "jn_locks"
  /\ \E fail \in BOOLEAN :
     \E gone \in Removed(StaleLocks(uploadDir) \cup OldSerialFiles(uploadDir), fail) :
       LET ud == Without(uploadDir, gone)
           rq == [req EXCEPT ![r] = SectionEnd(req[r], "locks", fail, "jn_temps")]
       IN /\ uploadDir' = ud
          /\ req' = rq
          /\ blobs' = CollectBlobs(blobs, chunkFiles, inflight, tmpFiles, ud, rq)
  /\ UNCHANGED <<chunkVars, jsonVars, tmpFiles, memVars>>

\* 2) Old temp files
JanitorTemps(r) ==
  /\ req[r].pc = "jn_temps"
  /\ \E fail \in BOOLEAN : \E gone \in Removed(OldEntries(tmpFiles), fail) :
       LET tf == Without(tmpFiles, gone)
           rq == [req EXCEPT ![r] = SectionEnd(req[r], "temps", fail, "jn_chunks")]
       IN /\ tmpFiles' = tf
          /\ req' = rq
          /\ blobs' = CollectBlobs(blobs, chunkFiles, inflight, tf, uploadDir, rq)
  /\ UNCHANGED <<chunkVars, jsonVars, uploadDir, memVars>>

\* A run whose third section would look at the chunks and remove none
JanitorChunksIdle(r) ==
  /\ req[r].pc = "jn_chunks"
  /\ \E fail \in BOOLEAN :
       req' = [req EXCEPT ![r] = SectionEnd(req[r], "chunks", fail, "jn_manifests")]
  /\ UNCHANGED <<chunkVars, blobs, jsonVars, storeVars, memVars>>
\* 3) Old chunks
JanitorChunks(r) ==
  /\ req[r].pc = "jn_chunks"
  /\ \E fail \in BOOLEAN : \E gone \in Removed(OldEntries(chunkFiles), fail) :
       LET cf == Without(chunkFiles, gone)
           rq == [req EXCEPT ![r] = SectionEnd(req[r], "chunks", fail, "jn_manifests")]
       IN /\ chunkFiles' = cf
          /\ req' = rq
          /\ blobs' = CollectBlobs(blobs, cf, inflight, tmpFiles, uploadDir, rq)
  /\ UNCHANGED <<inflight, jsonVars, storeVars, memVars>>

\* 4) Old manifests: the entries of manifestDir that end in ".json"
JanitorManifests(r) ==
  /\ req[r].pc = "jn_manifests"
  /\ \E fail \in BOOLEAN :
     \E gone \in Removed({p \in OldEntries(jsonFiles) :
                            p[1] = "manifests" /\ p[3] = ".json"}, fail) :
       LET jf == Without(jsonFiles, gone)
           rq == [req EXCEPT ![r] = SectionEnd(req[r], "manifests", fail, "done")]
       IN /\ jsonFiles' = jf
          /\ req' = rq
          /\ jsonInodes' = CollectJson(jsonInodes, jf, rq)
  /\ UNCHANGED <<chunkVars, blobs, storeVars, memVars>>

JanitorSteps(r) ==
  \/ JanitorLocks(r)
  \/ JanitorTemps(r)
  \/ JanitorChunks(r)
  \/ JanitorManifests(r)

\* ------------------------------------------------------------------
\* SpecJanitor: the store holds leftovers older than every threshold: a
\* stale lock, a partial merge output, the chunk and the manifest of an
\* abandoned upload.  Runs of the janitor follow one another (the
\* interval is an hour); Ann uploads one file meanwhile.
\* ------------------------------------------------------------------
InitJanitor ==
  /\ req = [r \in ReqIds |-> IdleReq]
  /\ chunkFiles = Put(Empty, getChunkPath("u1", Num(0)), <<0, 2>>)
  /\ inflight = Empty
  /\ tmpFiles = Put(Empty, <<0, 1>>, <<0, 1>>)
  /\ blobs = Put(Put(Empty, <<0, 1>>, <<1>>), <<0, 2>>, <<2>>)
  /\ jsonFiles = Put(Empty, getManifestPath("u1"), <<0, 2>>)
  /\ jsonInodes = Put(Empty, <<0, 2>>, Full(ReceivedUpload("u1")))
  /\ uploadDir = Put(Empty, LockDirOf("Ann", "IMG", 0), StaleLock)
  /\ hashIndex = Empty
  /\ uploadLog = <<>>

JanitorDone(r) == req[r].kind = "janitor" /\ req[r].pc = "done"
NoJanitorRunning ==
  \A r \in ReqIds : req[r].kind = "janitor" => req[r].pc = "done"

ScheduleJanitor(r) ==
  /\ NoJanitorRunning /\ InOrder(r)
  /\ JanitorStart(r)

\* One upload, which may arrive before, between or during the runs
SubmitOnce(r) ==
  /\ \A x \in ReqIds : req[x].kind # "direct"
  /\ InOrder(r)
  /\ DirectStart(r, "k1", OneFile(<<r>>))

NextJanitor ==
  \E r \in ReqIds :
    \/ ScheduleJanitor(r)
    \/ JanitorSteps(r)
    \/ SubmitOnce(r)
    \/ ReserveSteps(r)
    \/ ReserveStatLock(r)
    \/ ReserveRemoveStale(r)
    \/ WriteJsonSteps(r)
    \/ DirectReply(r)

SpecJanitor == InitJanitor /\ [][NextJanitor]_vars

\* ------------------------------------------------------------------
\* SpecCorrupt: as SpecStatus, from a state in which the manifest file of
\* "u1" is on disk and its text does not parse.
\* ------------------------------------------------------------------
InitCorrupt ==
  /\ req = [r \in ReqIds |-> IdleReq]
  /\ chunkFiles = Empty
  /\ inflight = Empty
  /\ tmpFiles = Empty
  /\ blobs = Empty
  /\ jsonFiles = Put(Empty, getManifestPath("u1"), <<0, 2>>)
  /\ jsonInodes = Put(Empty, <<0, 2>>, Truncated)
  /\ uploadDir = Empty
  /\ hashIndex = Empty
  /\ uploadLog = <<>>

SpecCorrupt == InitCorrupt /\ [][NextStatus]_vars

\* The index that the start of the process builds from a log: each hash
\* is mapped to the savedName of its earliest entry.
RECURSIVE RebuildIndex(_, _)
RebuildIndex(index, log) ==
  IF log = <<>> THEN index
  ELSE RebuildIndex(IF Has(index, Head(log).hash) THEN index
                    ELSE Put(index, Head(log).hash, Head(log).savedName),
                    Tail(log))

\* ------------------------------------------------------------------
\* The process stops at an arbitrary point and is started again: the
\* handlers in flight are gone with their descriptors, the disk is as it
\* was; uploadLog is read from the log file ([] when the file is absent
\* or does not parse) and hashIndex is rebuilt from it.
\* ------------------------------------------------------------------
Crashed(r) == "crashed" \in DOMAIN req[r].reply

Crash ==
  /\ ~Quiet
  /\ \A r \in ReqIds : ~Crashed(r)
  /\ LET rq  == [r \in ReqIds |->
                   IF req[r].pc \in {"idle", "done"} THEN req[r]
                   ELSE Finish(req[r], [status |-> 0, crashed |-> TRUE])]
         log == IF Has(jsonFiles, logFile) /\ jsonInodes[jsonFiles[logFile]].full
                THEN jsonInodes[jsonFiles[logFile]].val ELSE <<>>
     IN /\ req' = rq
        /\ uploadLog' = log
        /\ hashIndex' = RebuildIndex(Empty, log)
        /\ blobs' = CollectBlobs(blobs, chunkFiles, inflight, tmpFiles, uploadDir, rq)
        /\ jsonInodes' = CollectJson(jsonInodes, jsonFiles, rq)
  /\ UNCHANGED <<chunkFiles, inflight, jsonFiles, tmpFiles, uploadDir>>

\* ------------------------------------------------------------------
\* SpecCrash: as SpecDedupe, with one crash and restart at any point of
\* a request.
\* ------------------------------------------------------------------
NextCrash ==
  \/ Crash
  \/ \E r \in ReqIds :
       \/ SubmitUploadInTurn(r)
       \/ AssembleSteps(r)
       \/ ReserveSteps(r)
       \/ ReserveStatLock(r)
       \/ DirectSteps(r)
       \/ DirectReject(r)
       \/ WriteJsonSteps(r)

SpecCrash == InitStore /\ [][NextCrash]_vars

\* ------------------------------------------------------------------
\* SpecExhaust: Ann's direct uploads of one file each, side by side, into
\* a directory in which all serials of Ann's images but the last one
\* that reserveSerialPath tries are taken by files stored earlier.
\* ------------------------------------------------------------------
StoredBytes(k) == <<0, k>>
StoredEarlier(k) == FinalPathOf("Ann", "IMG", k, ".jpg")
RECURSIVE EarlierLog(_)
EarlierLog(k) ==
  IF k = 0 THEN <<>>
  ELSE Append(EarlierLog(k - 1),
              LogEntry([authKey |-> "k1"], StoredEarlier(k - 1),
                       Sha256(StoredBytes(k - 1)), FALSE))

InitExhaust ==
  LET taken == 0..(ProbeLimit - 2) IN
  /\ req = [r \in ReqIds |-> IdleReq]
  /\ chunkFiles = Empty
  /\ inflight = Empty
  /\ tmpFiles = Empty
  /\ blobs = [ino \in {<<0, k>> : k \in taken} |-> StoredBytes(ino[2])]
  /\ jsonFiles = Put(Empty, logFile, <<0, 1>>)
  /\ jsonInodes = Put(Empty, <<0, 1>>, Full(EarlierLog(ProbeLimit - 1)))
  /\ uploadDir = [nm \in {StoredEarlier(k) : k \in taken} |->
                    [kind |-> "file", ino |-> <<0, nm.n>>]]
  /\ uploadLog = EarlierLog(ProbeLimit - 1)
  /\ hashIndex = RebuildIndex(Empty, EarlierLog(ProbeLimit - 1))

NextExhaust ==
  \E r \in ReqIds :
    \/ SubmitOneFile(r)
    \/ ReserveSteps(r)
    \/ ReserveStatLock(r)
    \/ ReserveUnlock(r)
    \/ WriteJsonSteps(r)
    \/ DirectReply(r)

SpecExhaust == InitExhaust /\ [][NextExhaust]_vars

\* ------------------------------------------------------------------
\* SpecSweep: as SpecJanitor, with the run at boot followed by the runs
\* that setInterval starts every hour, without end.  The event loop keeps
\* taking the janitor's steps, and an error of opendir or of the directory
\* iteration does not recur in every run for ever: a sweep that can be
\* tried again and again is completed without an error at some time.
\* ------------------------------------------------------------------
BootRun(r) == r = 1 /\ ScheduleJanitor(r)

\* setInterval(cleanupOnce, ONE_HOUR): the next run, once the last has ended
NextRun(r) ==
  /\ JanitorDone(r)
  /\ req' = [req EXCEPT ![r].pc = "jn_locks", ![r].reply = [status |-> 0, failed |-> {}]]
  /\ UNCHANGED <<chunkVars, blobs, jsonVars, storeVars, memVars>>

\* The server listens after the call of cleanupOnce at boot
SubmitAfterBoot(r) == req[1].kind = "janitor" /\ SubmitOnce(r)

JanitorRuns(r) == BootRun(r) \/ NextRun(r) \/ JanitorSteps(r)

\* The run is at the given section and completes it without an error
SweepsClean(r, section, pc) ==
  /\ req[r].pc = pc
  /\ JanitorSteps(r)
  /\ section \notin req'[r].reply.failed

NextSweep ==
  \E r \in ReqIds :
    \/ JanitorRuns(r)
    \/ SubmitAfterBoot(r)
    \/ ReserveSteps(r)
    \/ ReserveStatLock(r)
    \/ ReserveRemoveStale(r)
    \/ WriteJsonSteps(r)
    \/ DirectReply(r)

SpecSweep ==
  /\ InitJanitor
  /\ [][NextSweep]_vars
  /\ WF_vars(\E r \in ReqIds : JanitorRuns(r))
  /\ SF_vars(\E r \in ReqIds : SweepsClean(r, "locks", "jn_locks"))
  /\ SF_vars(\E r \in ReqIds : SweepsClean(r, "temps", "jn_temps"))
  /\ SF_vars(\E r \in ReqIds : SweepsClean(r, "chunks", "jn_chunks"))
  /\ SF_vars(\E r \in ReqIds : SweepsClean(r, "manifests", "jn_manifests"))

\* ------------------------------------------------------------------
\* SpecAborts: chunks of "u1" with payloads of two bytes, each request
\* sent after the reply to the one before, the payload before or after
\* the fields; a connection may drop while its payload is streamed.
\* ------------------------------------------------------------------
SubmitLongChunk(r) ==
  /\ Quiet /\ InOrder(r)
  /\ \E idx \in {Num(0), Num(1)}, ff \in BOOLEAN, pay \in LongPayloads :
       ChunkStart(r, "k1", "u1", idx, Num(2), ff, pay)

NextAborts ==
  \E r \in ReqIds :
    \/ SubmitLongChunk(r)
    \/ ChunkSteps(r)
    \/ ChunkAbort(r)
    \/ WriteJsonSteps(r)

SpecAborts == InitChunks /\ [][NextAborts]_vars

\* ------------------------------------------------------------------
\* SpecReject: direct uploads of one or two files, one request after the
\* other, by senders whose authKey field is a known key, an unknown key
\* or missing.
\* ------------------------------------------------------------------
SubmitDirectWithKey(r) ==
  /\ Quiet /\ InOrder(r)
  /\ \E key \in AuthKeys :
     \E files \in {OneFile(<<1>>), OneFile(<<2>>) \o PngFile(<<1>>)} :
       DirectStart(r, key, files)

NextReject ==
  \E r \in ReqIds :
    \/ SubmitDirectWithKey(r)
    \/ DirectStage(r)
    \/ DirectReject(r)
    \/ DirectSteps(r)
    \/ ReserveSteps(r)
    \/ WriteJsonSteps(r)

SpecReject == Init /\ [][NextReject]_vars

\* ------------------------------------------------------------------
\* SpecExpire: Ann's direct uploads of one file each, side by side, and
\* runs of the janitor, in a store that starts empty.  A holder may be
\* slow: the time between its mkdir of the lock and its rename may
\* exceed LOCK_TTL, after which the lock counts as stale.
\* ------------------------------------------------------------------
\* now - st.mtimeMs > LOCK_TTL comes to hold for a lock that is in place
LockAges ==
  /\ \E nm \in DOMAIN uploadDir :
       /\ uploadDir[nm].kind = "lock" /\ ~uploadDir[nm].stale
       /\ uploadDir' = [uploadDir EXCEPT ![nm].stale = TRUE]
  /\ UNCHANGED <<req, chunkVars, blobs, jsonVars, tmpFiles, memVars>>

NextExpire ==
  \/ LockAges
  \/ \E r \in ReqIds :
       \/ SubmitOneFile(r)
       \/ ScheduleJanitor(r)
       \/ JanitorSteps(r)
       \/ RequestStep(r)

SpecExpire == InitChunks /\ [][NextExpire]_vars

\* ------------------------------------------------------------------
\* SpecExt: Ann's direct uploads of one image each, whose file names end
\* in ".jpg", ".serial", ".lock" or carry no extension, and runs of the
\* janitor, one after the other.  The store holds "Ann_IMG-0000.serial"
\* from an upload made more than LOCK_TTL ago.
\* ------------------------------------------------------------------
Extensions == {"", ".jpg", ".serial", ".lock"}
SerialName == EntryName("Ann", "IMG", 0, ".serial")
SerialEntry == LogEntry([authKey |-> "k1"], SerialName, Sha256(<<0>>), FALSE)

InitExt ==
  /\ req = [r \in ReqIds |-> IdleReq]
  /\ chunkFiles = Empty
  /\ inflight = Empty
  /\ tmpFiles = Empty
  /\ uploadDir = Put(Empty, SerialName, [kind |-> "file", ino |-> <<0, 1>>])
  /\ blobs = Put(Empty, <<0, 1>>, <<0>>)
  /\ hashIndex = Put(Empty, Sha256(<<0>>), SerialName)
  /\ uploadLog = <<SerialEntry>>
  /\ jsonFiles = Put(Empty, logFile, <<0, 1>>)
  /\ jsonInodes = Put(Empty, <<0, 1>>, Full(<<SerialEntry>>))

SubmitWithExt(r) ==
  /\ Quiet /\ InOrder(r)
  /\ \E ext \in Extensions : DirectStart(r, "k1", FileNamed(<<r>>, ext))

SweepInTurn(r) == Quiet /\ ScheduleJanitor(r)

NextExt ==
  \E r \in ReqIds :
    \/ SubmitWithExt(r)
    \/ SweepInTurn(r)
    \/ JanitorSteps(r)
    \/ ReserveSteps(r)
    \/ WriteJsonSteps(r)
    \/ DirectReply(r)

SpecExt == InitExt /\ [][NextExt]_vars

\* ------------------------------------------------------------------
\* The browser client (frontend/main.js): the page's flags and its runs
\* of runUploadQueueMixed.  The page occupies slot 1 of req and each run
\* a later slot, as a request does; the page's variables are the fields
\* of its reply record.  currentItems holds one chunked item of two
\* chunks, so that a run has one chunk worker; `done` is item.done.
\* ------------------------------------------------------------------
MAX_ASSEMBLE_ATTEMPTS == 4
ItemChunks == {0, 1}
Page == req[1].reply
PageReq(up, held, stop, done) ==
  [IdleReq EXCEPT !.kind = "page", !.pc = "page",
     !.reply = [status |-> 0, isUploading |-> up, isPaused |-> held,
                paused |-> stop, done |-> done]]

\* The worker's promise settles: 'Paused' is caught and the worker
\* returns, another error marks the row failed, a finished item leaves
\* the queue empty.  Promise.all then resolves and onBatchFinished runs.
WorkerReturns(q, outcome) == Finish(q, [status |-> 0, outcome |-> outcome])

\* for (ci ...) { if (paused) throw; if (received.has(ci)) continue;
\* await uploadChunk(...) }, entered at ci; then waitForAllChunks
RECURSIVE ChunkLoop(_, _, _)
ChunkLoop(q, ci, stop) ==
  IF ci \notin ItemChunks THEN [q EXCEPT !.i = 0, !.reply.received = {}, !.pc = "wk_wait"]
  ELSE IF stop THEN WorkerReturns(q, "paused")
  ELSE IF ci \in q.reply.received THEN ChunkLoop(q, ci + 1, stop)
  ELSE [q EXCEPT !.i = ci, !.pc = "wk_chunk"]

\* for (const ci of missingIndices) { if (paused) throw; await
\* uploadChunk(...) }, entered at ci; then the backoff timer
RECURSIVE MissingLoop(_, _, _)
MissingLoop(q, ci, stop) ==
  IF ci \notin ItemChunks THEN [q EXCEPT !.i = 0, !.reply.received = {}, !.pc = "wk_backoff"]
  ELSE IF ci \in q.reply.received THEN MissingLoop(q, ci + 1, stop)
  ELSE IF stop THEN WorkerReturns(q, "paused")
  ELSE [q EXCEPT !.i = ci, !.pc = "wk_rechunk"]

\* The worker of run r goes on as nq; when it has returned the run ends
\* with onBatchFinished, which resets the three flags.
WorkerStep(r, nq, done) ==
  /\ req' = [req EXCEPT ![r] = nq,
                        ![1] = IF nq.pc = "done" THEN PageReq(FALSE, FALSE, FALSE, done)
                               ELSE PageReq(Page.isUploading, Page.isPaused, Page.paused, done)]
  /\ UNCHANGED <<chunkVars, blobs, jsonVars, storeVars, memVars>>

\* runUploadQueueMixed(currentItems): paused = false; the items that are
\* not done are taken up by a new worker, which enters runChunked and
\* awaits getReceived.  With no item left the run ends at once.
StartRun(r) ==
  /\ r > 1 /\ InOrder(r) /\ req[r].pc = "idle"
  /\ LET run == [IdleReq EXCEPT !.kind = "run", !.n = 0, !.pc = "wk_status",
                                !.reply = [status |-> 0, received |-> {}]]
         nq  == IF Page.done THEN WorkerReturns(run, "empty") ELSE run
     IN req' = [req EXCEPT ![r] = nq,
                           ![1] = IF Page.done THEN PageReq(FALSE, FALSE, FALSE, TRUE)
                                  ELSE PageReq(TRUE, FALSE, FALSE, FALSE)]
  /\ UNCHANGED <<chunkVars, blobs, jsonVars, storeVars, memVars>>

\* btnStart: if (isUploading || !queueCount()) return
ClickStart(r) == ~Page.isUploading /\ ~Page.done /\ StartRun(r)
\* btnResume: if (!isUploading || !isPaused) return
ClickResume(r) == Page.isUploading /\ Page.isPaused /\ StartRun(r)
\* btnPause: if (!isUploading || isPaused) return
ClickPause ==
  /\ Page.isUploading /\ ~Page.isPaused
  /\ req' = [req EXCEPT ![1] = PageReq(TRUE, TRUE, TRUE, Page.done)]
  /\ UNCHANGED <<chunkVars, blobs, jsonVars, storeVars, memVars>>

\* getReceived resolves with some set of indices
StatusAnswered(r) ==
  /\ req[r].pc = "wk_status"
  /\ \E rec \in SUBSET ItemChunks :
       WorkerStep(r, ChunkLoop([req[r] EXCEPT !.reply.received = rec], 0, Page.paused),
                  Page.done)

\* uploadChunk resolves, or rejects after its retries
ChunkSent(r) ==
  /\ req[r].pc = "wk_chunk"
  /\ \E ok \in BOOLEAN :
       WorkerStep(r, IF ok THEN ChunkLoop(req[r], req[r].i + 1, Page.paused)
                     ELSE WorkerReturns(req[r], "failed"), Page.done)

\* waitForAllChunks returns; assembleOnServer sends the manifest
WaitDone(r) ==
  /\ req[r].pc = "wk_wait"
  /\ WorkerStep(r, [req[r] EXCEPT !.pc = "wk_assemble"], Page.done)

\* The answer to the manifest: success marks the item done; otherwise
\* getReceived is asked for the missing indices
AssembleAnswered(r) ==
  /\ req[r].pc = "wk_assemble"
  /\ \E ok \in BOOLEAN :
       IF ok THEN WorkerStep(r, WorkerReturns(req[r], "done"), TRUE)
       ELSE WorkerStep(r, [req[r] EXCEPT !.pc = "wk_missing"], Page.done)

MissingAnswered(r) ==
  /\ req[r].pc = "wk_missing"
  /\ \E rec \in SUBSET ItemChunks :
       WorkerStep(r, MissingLoop([req[r] EXCEPT !.reply.received = rec], 0, Page.paused),
                  Page.done)

RechunkSent(r) ==
  /\ req[r].pc = "wk_rechunk"
  /\ \E ok \in BOOLEAN :
       WorkerStep(r, IF ok THEN MissingLoop(req[r], req[r].i + 1, Page.paused)
                     ELSE WorkerReturns(req[r], "failed"), Page.done)

\* The backoff timer fires: the next attempt, or 'Assemble failed after
\* retries'
BackoffDone(r) ==
  /\ req[r].pc = "wk_backoff"
  /\ LET q == req[r] IN
       WorkerStep(r, IF q.n + 1 >= MAX_ASSEMBLE_ATTEMPTS THEN WorkerReturns(q, "failed")
                     ELSE IF Page.paused THEN WorkerReturns(q, "paused")
                     ELSE [q EXCEPT !.n = q.n + 1, !.pc = "wk_status"], Page.done)

\* ------------------------------------------------------------------
\* SpecClient: the user has added one file above the chunking threshold
\* and clicks Start, Pause and Resume at any time.
\* ------------------------------------------------------------------
InitClient ==
  /\ req = [r \in ReqIds |-> IF r = 1 THEN PageReq(FALSE, FALSE, FALSE, FALSE) ELSE IdleReq]
  /\ chunkFiles = Empty
  /\ inflight = Empty
  /\ EmptyStore

NextClient ==
  \/ ClickPause
  \/ \E r \in ReqIds :
       \/ ClickStart(r)
       \/ ClickResume(r)
       \/ StatusAnswered(r)
       \/ ChunkSent(r)
       \/ WaitDone(r)
       \/ AssembleAnswered(r)
       \/ MissingAnswered(r)
       \/ RechunkSent(r)
       \/ BackoffDone(r)

SpecClient == InitClient /\ [][NextClient]_vars

\* ------------------------------------------------------------------
\* Observations used by the properties
\* ------------------------------------------------------------------
Done(r)     == req[r].pc = "done"
Accepted(r) == Done(r) /\ req[r].reply.status = 200

\* The manifest a reader of the canonical path gets, when it parses
ManifestOf(u) == jsonInodes[jsonFiles[getManifestPath(u)]].val
HasManifest(u) ==
  /\ Has(jsonFiles, getManifestPath(u))
  /\ jsonInodes[jsonFiles[getManifestPath(u)]].full

\* The latest chunk request before slot f that carried index i
LastSubmit(f, i) ==
  CHOOSE r \in 1..(f - 1) :
    /\ req[r].kind = "chunk" /\ req[r].index = Num(i)
    /\ \A r2 \in (r + 1)..(f - 1) : ~(req[r2].kind = "chunk" /\ req[r2].index = Num(i))

RECURSIVE ConcatPayloads(_, _, _)
ConcatPayloads(f, i, n) ==
  IF i >= n THEN <<>>
  ELSE req[LastSubmit(f, i)].payload \o ConcatPayloads(f, i + 1, n)

\* Finalize request f follows nothing but accepted chunk submissions of an
\* upload of n chunks, and each index 0..n-1 was submitted.
CompleteUploadBefore(f) ==
  /\ req[f].kind = "finalize"
  /\ IsInt(req[f].totalChunks) /\ req[f].totalChunks.v >= 1
  /\ \A r \in 1..(f - 1) :
       /\ req[r].kind = "chunk" /\ Accepted(r)
       /\ req[r].totalChunks = req[f].totalChunks
  /\ \A i \in 0..(req[f].totalChunks.v - 1) :
       \E r \in 1..(f - 1) : req[r].index = Num(i)

NoDuplicates(list) ==
  \A a, b \in 1..Len(list) : a # b => list[a] # list[b]
InRange(m) ==
  \A a \in 1..Len(m.received) :
    /\ IsInt(m.received[a]) /\ IsInt(m.totalChunks)
    /\ 0 <= m.received[a].v /\ m.received[a].v < m.totalChunks.v

\* ------------------------------------------------------------------
\* Claims
\* ------------------------------------------------------------------
\* C1: a finalize that follows accepted chunk submissions covering every
\* index 0..n-1 (any order, with repeats) succeeds, and what it assembled
\* (the hashed bytes, and the stored file when it is new) is the
\* concatenation, in ascending index order, of the payload last stored
\* for each index.
C1_AssemblyInOrder ==
  \A f \in ReqIds :
    (Done(f) /\ CompleteUploadBefore(f)) =>
      LET want == ConcatPayloads(f, 0, req[f].totalChunks.v) IN
      /\ req[f].reply.status = 200
      /\ req[f].sha256 = Sha256(want)
      /\ ~req[f].reply.deduped =>
            /\ Has(uploadDir, req[f].reply.savedAs)
            /\ blobs[uploadDir[req[f].reply.savedAs].ino] = want

\* Chunk 1 arrived before chunk 0, with different bytes, and the upload
\* of two chunks was finalized into a new file.
C1_Witness ==
  /\ Done(3) /\ CompleteUploadBefore(3)
  /\ req[3].totalChunks = Num(2)
  /\ req[1].index = Num(1) /\ req[2].index = Num(0)
  /\ req[1].payload # req[2].payload
  /\ ~req[3].reply.deduped

\* The content hash of the upload that request r finalized or sent whole
ContentHash(r) ==
  IF req[r].kind = "finalize" THEN req[r].sha256
  ELSE Sha256(req[r].files[1].bytes)
StoredNames == {nm \in DOMAIN uploadDir : uploadDir[nm].kind = "file"}
StoredWithHash(h) ==
  {nm \in StoredNames : Sha256(blobs[uploadDir[nm].ino]) = h}
LogWithHash(h, deduped) ==
  {k \in 1..Len(uploadLog) : uploadLog[k].hash = h /\ uploadLog[k].deduped = deduped}

\* Exactly two uploads were made, one after the other, both were answered
\* with success and their contents are byte-identical.
TwoIdenticalUploads ==
  /\ Quiet
  /\ \A r \in ReqIds : Done(r) <=> r \in {1, 2}
  /\ \A r \in {1, 2} : req[r].kind \in {"finalize", "direct"} /\ Accepted(r)
  /\ ContentHash(1) = ContentHash(2)

\* One file stored; one plain log entry and, after it, one deduped entry
\* with the same savedName; the log file holds the log.
StoredAndLoggedOnce(h) ==
  /\ Cardinality(StoredWithHash(h)) = 1
  /\ Cardinality(LogWithHash(h, FALSE)) = 1
  /\ Cardinality(LogWithHash(h, TRUE)) = 1
  /\ \A a \in LogWithHash(h, FALSE), b \in LogWithHash(h, TRUE) :
       /\ a < b
       /\ uploadLog[b].savedName = uploadLog[a].savedName
       /\ uploadLog[a].savedName \in StoredWithHash(h)
  /\ Has(jsonFiles, logFile)
  /\ jsonInodes[jsonFiles[logFile]] = Full(uploadLog)

\* The reply says deduped and names the existing file
ReportsDeduped(r, h) ==
  /\ "deduped" \in DOMAIN req[r].reply
  /\ req[r].reply.deduped
  /\ req[r].reply.existing \in StoredWithHash(h)

C3_StoredOnce ==
  \A a, b \in StoredNames :
    a # b => Sha256(blobs[uploadDir[a].ino]) # Sha256(blobs[uploadDir[b].ino])

\* The serials that reserveSerialPath has returned to request r
Serials(r) ==
  (IF req[r].pc \in {"fr_rename", "fr_unlock"} THEN {req[r].n} ELSE {})
  \cup {req[r].savedFiles[k].n : k \in 1..Len(req[r].savedFiles)}
  \cup (IF Accepted(r) THEN {req[r].reply.files[k].n : k \in 1..Len(req[r].reply.files)}
        ELSE {})
\* reserveSerialPath has just returned to request r
Reserved(r) == req[r].pc = "fr_rename"

\* C4: the serials returned to different requests of one owner and prefix
\* are pairwise distinct, and a serial is returned only while no file of
\* the owner's directory has it.
C4_DistinctSerials ==
  /\ \A r1, r2 \in ReqIds : r1 # r2 => Serials(r1) \cap Serials(r2) = {}
  /\ \A r \in ReqIds :
       Reserved(r) => ~isRealSerialUsed(uploadDir, CurOwner(req[r]), CurPrefix(req[r]), req[r].n)

\* Request r has found the lock of its candidate and its stat shows a
\* marker older than LOCK_TTL.
MetStale(r) ==
  /\ req[r].pc = "rs_stat"
  /\ Has(uploadDir, CurLock(req[r]))
  /\ uploadDir[CurLock(req[r])].stale
NoStaleMarker ==
  \A nm \in DOMAIN uploadDir : ~(uploadDir[nm].kind = "lock" /\ uploadDir[nm].stale)

\* C5: an allocation that meets a stale marker goes on until
\* reserveSerialPath returns a reservation to it, and by then the marker
\* has been removed.
C5_StaleReclaimed ==
  \A r \in 1..MaxInFlight : MetStale(r) ~> (Reserved(r) /\ NoStaleMarker)

\* A request holds the reservation of serial 1, having passed serial 0
\* for its marker alone; the marker is gone.
C5_Witness ==
  \E r \in ReqIds :
    /\ Reserved(r) /\ req[r].n = 1
    /\ NoStaleMarker
    /\ ~isRealSerialUsed(uploadDir, "Ann", "IMG", 0)

\* The payloads that chunk requests carried for an index
SubmittedPayloads(u, index) ==
  {req[r].payload : r \in {x \in ReqIds : /\ req[x].kind = "chunk"
                                          /\ req[x].uploadId = u
                                          /\ req[x].index = index}}
\* C6: chunk 0 is in received; once resubmissions of chunk 0 have all been
\* answered ok, received has no duplicate entry and the chunk file holds
\* the complete bytes of one of the payloads submitted for the index.
C6_ResubmitIdempotent ==
  (/\ Quiet
   /\ \E r \in ReqIds : r > 1 /\ Done(r)
   /\ \A r \in ReqIds : Done(r) => Accepted(r))
  => /\ HasManifest("u1") => NoDuplicates(ManifestOf("u1").received)
     /\ Has(chunkFiles, getChunkPath("u1", Num(0)))
     /\ blobs[chunkFiles[getChunkPath("u1", Num(0))]] \in SubmittedPayloads("u1", Num(0))

\* C7: once no chunk submission is in flight, every index that was
\* answered ok is in the received list of the upload's manifest.
C7_NoLostUpdate ==
  Quiet =>
    \A r \in ReqIds :
      (req[r].kind = "chunk" /\ Accepted(r)) =>
        /\ HasManifest(req[r].uploadId)
        /\ Includes(ManifestOf(req[r].uploadId).received, req[r].index)

\* C8: whenever a manifest is at its canonical path, the file holds one
\* complete record.
C8_ReaderSeesComplete ==
  \A u \in UploadIds :
    Has(jsonFiles, getManifestPath(u)) => jsonInodes[jsonFiles[getManifestPath(u)]].full

\* C9: the received list of every manifest has no duplicate and holds
\* only integers i with 0 <= i < totalChunks.
C9_ReceivedInRange ==
  \A u \in UploadIds :
    HasManifest(u) => NoDuplicates(ManifestOf(u).received) /\ InRange(ManifestOf(u))

\* A step from a manifest to a manifest keeps totalChunks
TotalChunksKept ==
  \A u \in UploadIds :
    (HasManifest(u) /\ HasManifest(u)') =>
      ManifestOf(u)'.totalChunks = ManifestOf(u).totalChunks
\* C10: while a manifest exists, no step changes its totalChunks.
C10_TotalChunksFixed == [][TotalChunksKept]_vars

\* Every index of the manifest's received list has its chunk file, and
\* the file is not empty.
ReceivedOnDisk(u) ==
  \A a \in 1..Len(ManifestOf(u).received) :
    LET part == getChunkPath(u, ManifestOf(u).received[a]) IN
    /\ Has(chunkFiles, part)
    /\ Len(blobs[chunkFiles[part]]) > 0

\* C11: whenever no request is in flight, each index recorded in a
\* manifest's received list has its chunk file on disk with nonzero size.
C11_ReceivedChunksOnDisk ==
  Quiet => \A u \in UploadIds : HasManifest(u) => ReceivedOnDisk(u)

\* The authKey of the request is missing or is not a key of users
Unauthorized(q) == q.authKey = "" \/ ~Has(users, q.authKey)
\* The step leaves the chunk directory and the manifests as they are
DiskUntouched == UNCHANGED <<chunkFiles, inflight, blobs, jsonFiles, jsonInodes>>

\* C12: no step of a chunk submission whose authKey is missing or unknown
\* changes the chunk directory or a manifest, and its reply is 403.
C12_UnauthorizedWritesNothing ==
  [][\A r \in ReqIds :
       (req'[r] # req[r] /\ req'[r].kind = "chunk" /\ Unauthorized(req'[r])) =>
         /\ DiskUntouched
         /\ Done(r)' => req'[r].reply.status = 403]_vars

\* The index or totalChunks field of the request is not a number, or is
\* negative, or totalChunks is zero.
Malformed(q) ==
  \/ ~IsInt(q.index) \/ ~IsInt(q.totalChunks)
  \/ q.index.v < 0 \/ q.totalChunks.v <= 0

\* C13: no step of a chunk submission whose index or totalChunks is
\* malformed writes a chunk or staging file or creates or changes a
\* manifest, and its reply is 400.
C13_MalformedWritesNothing ==
  [][\A r \in ReqIds :
       (req'[r] # req[r] /\ req'[r].kind = "chunk" /\ Malformed(req'[r])) =>
         /\ DiskUntouched
         /\ Done(r)' => req'[r].reply.status = 400]_vars

\* Finalize request f follows nothing but accepted chunk submissions and
\* no request has come after it
ChunksOnlyBefore(f) ==
  /\ req[f].kind = "finalize"
  /\ \A r \in ReqIds : r > f => req[r].pc = "idle"
  /\ IsInt(req[f].totalChunks) /\ req[f].totalChunks.v >= 1
  /\ \A r \in 1..(f - 1) :
       req[r].kind = "chunk" /\ Accepted(r) /\ IsInt(req[r].index)
\* The indices whose chunk file is on disk when finalize request f arrives
SubmittedBefore(f) == {req[r].index.v : r \in 1..(f - 1)}
\* The expected indices whose chunk file is missing then
Defective(f) == (0..(req[f].totalChunks.v - 1)) \ SubmittedBefore(f)
\* Each chunk file that was on disk when f arrived is there, as submitted
ChunksKept(f) ==
  \A i \in SubmittedBefore(f) :
    /\ Has(chunkFiles, getChunkPath(req[f].uploadId, Num(i)))
    /\ blobs[chunkFiles[getChunkPath(req[f].uploadId, Num(i))]] = req[LastSubmit(f, i)].payload
\* Nothing was written to the output of finalize request f
NothingMerged(f) ==
  Has(tmpFiles, <<f, 0>>) => blobs[tmpFiles[<<f, 0>>]] = <<>>

\* C14: a finalize that arrives while an expected chunk file is missing
\* is answered with an error that names exactly the missing indices; it
\* has merged nothing and the manifest and the chunk files are as they
\* were.
C14_DefectiveAbortsClean ==
  \A f \in ReqIds :
    (Done(f) /\ ChunksOnlyBefore(f) /\ Defective(f) # {}) =>
      /\ req[f].reply.status # 200
      /\ "missing" \in DOMAIN req[f].reply
      /\ req[f].reply.missing = Defective(f)
      /\ NothingMerged(f)
      /\ HasManifest(req[f].uploadId)
      /\ ChunksKept(f)

\* Finalize request f was answered "Assembly failed" after it had merged
\* chunk 0 at least
FailedPartWay(f) ==
  /\ Done(f) /\ ChunksOnlyBefore(f)
  /\ 0 \in SubmittedBefore(f)
  /\ req[f].reply.status = 500

\* C15: after an assembly that failed part-way, the partial output file
\* is gone, and the manifest and every chunk file that was on disk,
\* those already read included, are still there.
C15_FailedAssemblyKeepsChunks ==
  \A f \in ReqIds :
    FailedPartWay(f) =>
      /\ ~Has(tmpFiles, <<f, 0>>)
      /\ HasManifest(req[f].uploadId)
      /\ ChunksKept(f)

\* The manifest of upload u records as many received indices as its
\* totalChunks
ManifestComplete(u) ==
  /\ HasManifest(u)
  /\ IsInt(ManifestOf(u).totalChunks)
  /\ Cardinality(Range(ManifestOf(u).received)) = ManifestOf(u).totalChunks.v
\* Request r starts to merge a chunk, or stores the assembled file
Merges(r) ==
  /\ req'[r].kind = "finalize"
  /\ req'[r] # req[r]
  /\ req'[r].pc \in {"as_read", "fr_unlock"}

\* C16: a finalize merges a chunk or stores a file only in states where
\* the manifest of its upload is complete.
C16_AssemblyOnlyWhenComplete ==
  [][\A r \in ReqIds : Merges(r) => ManifestComplete(req'[r].uploadId)]_vars

\* Request q has found the hash of its upload in hashIndex and has not
\* finished the branch taken on a hit.
InHit(q) ==
  \/ q.kind = "finalize" /\ q.deduped
  \/ q.kind = "direct" /\ q.pc = "du_unlink"
\* The step is one of request r in its dedupe branch
HitStep(r) == req'[r] # req[r] /\ InHit(req[r])
\* The step leaves the log as it is, but for the one step after the
\* removal of the temp file, which appends a single entry: deduped, with
\* the name that hashIndex has for its hash.
HitLogs(r) ==
  IF req[r].pc \in {"dd_unlink_mf", "du_unlink"}
  THEN /\ Len(uploadLog') = Len(uploadLog) + 1
       /\ SubSeq(uploadLog', 1, Len(uploadLog)) = uploadLog
       /\ LET entry == uploadLog'[Len(uploadLog')] IN
          /\ entry.deduped
          /\ Has(hashIndex, entry.hash)
          /\ entry.savedName = hashIndex[entry.hash]
  ELSE uploadLog' = uploadLog
\* The temp file of the upload is gone once the branch is left
HitUnstages(r) ==
  /\ req[r].kind = "direct" => ~Has(tmpFiles', <<r, req[r].k>>)
  /\ Done(r)' => \A x \in DOMAIN tmpFiles' : x[1] # r

\* C17: from the hashIndex hit to the reply, no step of the request adds
\* or changes a stored file or a reservation marker or changes hashIndex;
\* the temp file is removed; the log gains exactly one entry, deduped,
\* whose savedName is the indexed name.
C17_HitFrame ==
  [][\A r \in ReqIds :
       HitStep(r) =>
         /\ uploadDir' = uploadDir
         /\ hashIndex' = hashIndex
         /\ HitLogs(r)
         /\ HitUnstages(r)]_vars

\* A file was stored for the first upload; a finalize and then a direct
\* upload of the same bytes hit the index.
C17_Witness ==
  /\ Quiet /\ \A r \in ReqIds : Accepted(r)
  /\ req[2].kind = "finalize" /\ req[2].reply.deduped
  /\ req[3].kind = "direct" /\ req[3].reply.files = <<>>
  /\ Len(uploadLog) = 3 /\ uploadLog[2].deduped /\ uploadLog[3].deduped
  /\ Cardinality(StoredNames) = 1

\* C18: no two stored files of one owner and one prefix carry the same
\* serial number, whatever their extensions.
C18_SerialUniquePerOwner ==
  \A a, b \in StoredNames :
    (a # b /\ a.owner = b.owner /\ a.prefix = b.prefix) => a.n # b.n

\* Request q is between the mkdir of its marker and the end of
\* finalizeReservation
HoldsMarker(q) == q.pc \in {"rs_used2", "rs_unlock", "fr_rename", "fr_unlock"}

\* C19: the marker that a request made for a reservation exists only
\* until finalizeReservation has returned or thrown: no marker is left
\* by a request that is past it, whether the bytes were moved or both
\* the rename and the copy failed.
C19_MarkerReleased ==
  \A nm \in DOMAIN uploadDir :
    (uploadDir[nm].kind = "lock" /\ uploadDir[nm].by # 0) =>
      /\ HoldsMarker(req[uploadDir[nm].by])
      /\ nm = CurLock(req[uploadDir[nm].by])

\* One upload was stored and one was answered 500 after the rename and
\* the copy had failed; no marker is left.
C19_Witness ==
  /\ Quiet
  /\ \E r1, r2 \in ReqIds :
       /\ Done(r1) /\ req[r1].reply.status = 500 /\ req[r1].files[1].ext = ".lock"
       /\ Accepted(r2) /\ Len(req[r2].reply.files) = 1
  /\ \A nm \in DOMAIN uploadDir : uploadDir[nm].kind # "lock"

\* Sequence a is a prefix of sequence b
IsPrefix(a, b) == Len(a) <= Len(b) /\ SubSeq(b, 1, Len(a)) = a
\* The log file is there and parses
HasLogFile == Has(jsonFiles, logFile) /\ jsonInodes[jsonFiles[logFile]].full
LogFileValue == jsonInodes[jsonFiles[logFile]].val

\* C20: every step leaves the earlier value of the upload log as a prefix
\* of the later one, in memory and in the log file.
C20_LogAppendOnly ==
  [][/\ IsPrefix(uploadLog, uploadLog')
     /\ HasLogFile => (HasLogFile' /\ IsPrefix(LogFileValue, LogFileValue'))]_vars

\* C21: in every state hashIndex is the index that a restart would
\* rebuild from the log in memory: each hash is mapped to the savedName
\* of its earliest log entry.
C21_IndexIsRebuiltIndex == hashIndex = RebuildIndex(Empty, uploadLog)

\* The log that a start of the process would load: the content of the
\* log file, or the empty log when the file is absent or does not parse.
PersistedLog == IF HasLogFile THEN LogFileValue ELSE <<>>

\* C22: whenever no request is in flight, the persisted log equals the
\* log in memory.
C22_LogPersisted == Quiet => PersistedLog = uploadLog

\* The received list of the manifest of upload u, empty without a manifest
RecordedIndices(u) == IF HasManifest(u) THEN ManifestOf(u).received ELSE <<>>
\* The step is one of status query r for an upload id
StatusStep(r) ==
  /\ req'[r] # req[r]
  /\ req'[r].kind = "status" /\ req'[r].uploadId # ""

\* C23: the step that answers a status query answers with the indices
\* that the manifest of the upload records at that moment, the empty
\* list when there is no manifest; no step of a query changes the disk,
\* hashIndex or the log.
C23_StatusIsReceived ==
  [][\A r \in ReqIds :
       StatusStep(r) =>
         /\ UNCHANGED <<chunkFiles, inflight, blobs, jsonFiles, jsonInodes,
                        tmpFiles, uploadDir, hashIndex, uploadLog>>
         /\ Done(r)' =>
              req'[r].reply = [status |-> 200,
                               received |-> RecordedIndices(req'[r].uploadId)]]_vars

\* A query was answered with the empty list, one with one index
C23_Witness ==
  \E r1, r2 \in ReqIds :
    /\ req[r1].kind = "status" /\ Done(r1) /\ req[r1].reply = [status |-> 200, received |-> <<>>]
    /\ req[r2].kind = "status" /\ Done(r2) /\ req[r2].uploadId = "u1"
    /\ "received" \in DOMAIN req[r2].reply /\ Len(req[r2].reply.received) = 1

Categories == {"locks", "temps", "chunks", "manifests"}
\* The entries of a category that are older than its threshold
Leftovers(c) ==
  IF c = "locks" THEN StaleLocks(uploadDir)
  ELSE IF c = "temps" THEN OldEntries(tmpFiles)
  ELSE IF c = "chunks" THEN OldEntries(chunkFiles)
  ELSE OldEntries(jsonFiles)

\* C24: when a run of the janitor has ended, every category whose sweep
\* did not throw holds no entry older than its threshold, whichever
\* other sweeps of the run threw; every run that threw has still ended
\* as a run that did not.
C24_SweepsIndependent ==
  \A r \in ReqIds :
    JanitorDone(r) =>
      /\ req[r].reply.failed \subseteq Categories
      /\ \A c \in Categories \ req[r].reply.failed : Leftovers(c) = {}

\* The sweep of the temp files threw and left the old merge output; the
\* chunk and the manifest, swept after it, are gone.
C24_Witness ==
  \E r \in ReqIds :
    /\ JanitorDone(r) /\ req[r].reply.failed = {"temps"}
    /\ Leftovers("temps") # {}
    /\ chunkFiles = Empty /\ jsonFiles = Empty

\* The manifest file of upload u is there and its text does not parse
Unparseable(u) ==
  /\ Has(jsonFiles, getManifestPath(u))
  /\ ~jsonInodes[jsonFiles[getManifestPath(u)]].full
\* A status query that is answered while the manifest is unparseable is
\* answered as without a manifest.
StatusAsAbsent(r) ==
  (StatusStep(r) /\ Done(r)' /\ Unparseable(req'[r].uploadId)) =>
    req'[r].reply = [status |-> 200, received |-> <<>>]
\* The first chunk submission, which meets the unparseable manifest, is
\* answered ok and leaves the manifest of a first chunk.
ChunkAsFirst(r) ==
  (/\ req[r].kind = "chunk" /\ ~Done(r) /\ Done(r)'
   /\ \A r2 \in 1..(r - 1) : req[r2].kind # "chunk") =>
    /\ req'[r].reply.status = 200
    /\ HasManifest(req[r].uploadId)'
    /\ ManifestOf(req[r].uploadId)' = ManifestJson(MarkReceived(FreshManifest(req[r]), req[r].index))

\* C25: an unparseable manifest is treated like an absent one: a status
\* query answers the empty list and a chunk submission proceeds as for a
\* first chunk; neither answers with an error.
C25_UnparseableAsAbsent ==
  [][\A r \in ReqIds : StatusAsAbsent(r) /\ ChunkAsFirst(r)]_vars

\* C26: with a crash and restart at any point of an upload, no two
\* stored files have the same content, and, whenever no request is in
\* flight, the dedupe lookup finds the content of every stored file.
C26_ReplayIdempotent ==
  /\ \A a, b \in StoredNames :
       a # b => Sha256(blobs[uploadDir[a].ino]) # Sha256(blobs[uploadDir[b].ino])
  /\ Quiet => \A a \in StoredNames : Has(hashIndex, Sha256(blobs[uploadDir[a].ino]))

\* Request r is the only one that has arrived
Alone(r) == \A r2 \in ReqIds \ {r} : req[r2].pc = "idle"

\* C27: an allocation that runs alone in a directory whose only entry is
\* the stale marker of serial 0 removes the marker and retries the same
\* candidate: the reservation it returns is for serial 0.
C27_StaleRetriesSame ==
  \A r \in ReqIds : (Reserved(r) /\ Alone(r)) => req[r].n = 0

\* A real file has the serial of the candidate of request q
CandidateUsed(dir, q) == isRealSerialUsed(dir, CurOwner(q), CurPrefix(q), q.n)
\* Request r takes a step from the given position
StepsFrom(r, pc) == req[r].pc = pc /\ req'[r] # req[r]

\* C28: an allocator that holds the marker it has just made for a
\* candidate for which a real file exists by now releases that marker
\* and goes on with the next candidate; reserveSerialPath returns a
\* serial only when no real file has it at that moment.
C28_RecheckAfterLock ==
  [][\A r \in ReqIds :
       /\ (StepsFrom(r, "rs_used2") /\ CandidateUsed(uploadDir, req[r])) =>
            req'[r].pc = "rs_unlock"
       /\ StepsFrom(r, "rs_unlock") =>
            /\ ~Has(uploadDir', CurLock(req[r]))
            /\ req'[r].pc = "rs_used1" => req'[r].n = req[r].n + 1
       /\ (req[r].pc # "fr_rename" /\ req'[r].pc = "fr_rename") =>
            ~CandidateUsed(uploadDir', req'[r])]_vars

\* A request holds the marker it made after its first check of the
\* candidate, and another request has stored a file with that serial
\* meanwhile.
C28_Witness ==
  \E r \in ReqIds :
    /\ req[r].pc = "rs_unlock"
    /\ Has(uploadDir, CurLock(req[r])) /\ uploadDir[CurLock(req[r])].by = r
    /\ CandidateUsed(uploadDir, req[r])

\* The only marker of the owner and prefix of request r is the one that
\* r made
NoOtherMarker(r) ==
  \A nm \in DOMAIN uploadDir :
    (nm.owner = CurOwner(req[r]) /\ nm.prefix = CurPrefix(req[r])
       /\ nm.ext = ".lock") => nm = CurLock(req[r])

\* C29: where no other marker of the owner and prefix is present, the
\* serial that reserveSerialPath returns is the smallest one, counted
\* from 0, that no real entry of the owner and prefix has.
C29_SmallestUnused ==
  \A r \in ReqIds :
    (Reserved(r) /\ NoOtherMarker(r)) =>
      /\ ~CandidateUsed(uploadDir, req[r])
      /\ \A k \in 0..(req[r].n - 1) :
           isRealSerialUsed(uploadDir, CurOwner(req[r]), CurPrefix(req[r]), k)

\* A reservation of a serial past 0: the owner has a stored file already
C29_Witness ==
  \E r \in ReqIds : Reserved(r) /\ NoOtherMarker(r) /\ req[r].n >= 1

\* The marker of the candidate of request r is young and another request
\* made it
MarkerHeld(r) ==
  LET lock == CurLock(req[r]) IN
    /\ Has(uploadDir, lock)
    /\ uploadDir[lock].kind = "lock" /\ ~uploadDir[lock].stale
    /\ uploadDir[lock].by \in ReqIds \ {r}
\* The positions of a request inside reserveSerialPath
ReservePcs == {"rs_used1", "rs_mkdir", "rs_stat", "rs_rmstale", "rs_used2", "rs_unlock"}

\* C30: a request whose candidate has a young marker that another
\* allocator holds leaves the marker alone and goes on to the next
\* candidate; no call of reserveSerialPath ends the request with an
\* error, and the request comes to hold a reservation.
C30_ContentionMovesOn ==
  /\ [][\A r \in ReqIds :
          /\ (StepsFrom(r, "rs_stat") /\ MarkerHeld(r)) =>
               /\ req'[r].pc = "rs_used1" /\ req'[r].n = req[r].n + 1
               /\ uploadDir' = uploadDir
          /\ req[r].pc \in ReservePcs => req'[r].pc # "done"]_vars
  /\ \A r \in 1..MaxInFlight : (req[r].pc = "rs_stat" /\ MarkerHeld(r)) ~> Reserved(r)

\* A request has found the marker of its candidate in place, and the
\* marker is the young one of a request that is still at work
C30_Witness ==
  \E r \in ReqIds :
    /\ req[r].pc = "rs_stat" /\ MarkerHeld(r)
    /\ req[uploadDir[CurLock(req[r])].by].pc # "done"

\* Request r made a marker that is in uploadDir
OwnMarker(dir, r) ==
  \E nm \in DOMAIN dir : dir[nm].kind = "lock" /\ dir[nm].by = r
\* Every candidate of the owner and prefix is taken by a real file or has
\* a marker
AllTaken(dir, name, prefix) ==
  \A k \in 0..(ProbeLimit - 1) :
    isRealSerialUsed(dir, name, prefix, k) \/ Has(dir, LockDirOf(name, prefix, k))
\* Request r takes the step that finds its last candidate used, or held
\* by a marker that is not stale, or that releases the marker it made for
\* the last candidate
Exhausts(r) ==
  /\ req[r].n = ProbeLimit - 1
  /\ \/ StepsFrom(r, "rs_used1") /\ CandidateUsed(uploadDir, req[r])
     \/ /\ StepsFrom(r, "rs_stat")
        /\ ~(Has(uploadDir, CurLock(req[r])) /\ uploadDir[CurLock(req[r])].stale)
     \/ StepsFrom(r, "rs_unlock")

\* C31: a request for which the last candidate is used or contended as
\* well ends with an error, without a path: it stores no file and adds
\* nothing to the index and the log, and no marker that it made is left.
\* reserveSerialPath ends a request in no other case.
C31_ExhaustedFails ==
  [][\A r \in ReqIds :
       /\ Exhausts(r) =>
            /\ req'[r].pc = "done" /\ req'[r].reply = [status |-> 500]
            /\ ~OwnMarker(uploadDir', r)
            /\ DOMAIN uploadDir' \subseteq DOMAIN uploadDir
            /\ hashIndex' = hashIndex /\ uploadLog' = uploadLog
       /\ (req[r].pc \in ReservePcs /\ req'[r].pc = "done") => Exhausts(r)]_vars

\* A request has ended with the error; every candidate is taken, the last
\* one by the file that another request stored meanwhile
C31_Witness ==
  \E r, r2 \in ReqIds :
    /\ req[r].pc = "done" /\ req[r].reply = [status |-> 500]
    /\ req[r2].pc = "done" /\ req[r2].reply.status = 200
    /\ AllTaken(uploadDir, "Ann", "IMG") /\ ~OwnMarker(uploadDir, r)

\* Chunk request r is about to reply that its chunk is stored
ChunkStored(r) == req[r].kind = "chunk" /\ req[r].pc = "wj_done"
\* The state holds what submission q asked to store
HoldsChunk(q, r) ==
  LET part == getChunkPath(q.uploadId, q.index) IN
    /\ Has(chunkFiles, part) /\ blobs[chunkFiles[part]] = q.payload
    /\ HasManifest(q.uploadId)
    /\ Includes(ManifestOf(q.uploadId).received, q.index)
    /\ ~Has(inflight, r) /\ chunkFiles[part] \notin Range(inflight)

\* C32: when a chunk submission is accepted, whether its payload came
\* after the uploadId and index fields or before them, the chunk file of
\* that upload and index holds the payload, the manifest lists the index,
\* and no staging file of the request is left.
C32_PayloadOrderIrrelevant ==
  [][\A r \in ReqIds :
       (ChunkStored(r) /\ req'[r].pc = "done") =>
         /\ req'[r].reply.status = 200
         /\ HoldsChunk(req[r], r)']_vars

\* A submission whose payload came before its fields is about to be
\* accepted, after an accepted one for the same index with other bytes.
C32_Witness ==
  \E r, r2 \in ReqIds :
    /\ r2 < r /\ Accepted(r2) /\ req[r2].kind = "chunk"
    /\ req[r2].index = req[r].index /\ req[r2].payload # req[r].payload
    /\ ChunkStored(r) /\ ~req[r].fieldsFirst /\ req[r].wroteTemp
    /\ HoldsChunk(req[r], r)

\* Neither the manifest of the upload of request q nor one of the chunk
\* files 0..totalChunks-1 that q named is on disk
UploadConsumed(q) ==
  /\ ~Has(jsonFiles, getManifestPath(q.uploadId))
  /\ \A i \in 0..(q.totalChunks.v - 1) :
       ~Has(chunkFiles, getChunkPath(q.uploadId, Num(i)))

\* C33: when a finalize replies success, with a newly stored file or a
\* deduped one, the manifest of the upload and its chunk files
\* 0..totalChunks-1 are gone.
C33_SuccessConsumesUpload ==
  [][\A r \in ReqIds :
       (req[r].kind = "finalize" /\ req[r].pc # "done" /\ Accepted(r)') =>
         UploadConsumed(req[r])']_vars

\* A finalize of two chunks has replied success
C33_Witness ==
  \E r \in ReqIds :
    /\ Accepted(r) /\ req[r].kind = "finalize" /\ req[r].totalChunks = Num(2)
    /\ UploadConsumed(req[r])

\* C34: with the janitor run again and again, every category that holds
\* entries older than its threshold (stale markers, old partial merge
\* outputs, old chunk files, old manifests) comes to hold none.
C34_OldEntriesRemoved ==
  \A c \in Categories : (Leftovers(c) # {}) ~> (Leftovers(c) = {})

\* A later run than the first has removed the last old entry, after a
\* sweep of an earlier run threw
C34_Witness ==
  /\ \A c \in Categories : Leftovers(c) = {}
  /\ \E r \in ReqIds : JanitorDone(r) /\ req[r].reply.failed # {}

\* A reader of the manifest of upload u finds index i in received
Recorded(u, i) == HasManifest(u) /\ Includes(ManifestOf(u).received, Num(i))

\* C35: the step that puts an index into the received list of a manifest
\* is taken by a chunk request for that index whose payload is in the
\* chunk file in full, under the final chunk path and under no staging
\* path; a chunk request that ends with an error changes no manifest.
C35_IndexAfterBytes ==
  [][/\ \A u \in UploadIds : \A i \in {0, 1} :
          (~Recorded(u, i) /\ Recorded(u, i)') =>
            \E r \in ReqIds :
              LET part == getChunkPath(u, Num(i)) IN
              /\ req[r].kind = "chunk" /\ req'[r] # req[r]
              /\ req[r].uploadId = u /\ req[r].index = Num(i)
              /\ req[r].pos = Len(req[r].payload) /\ ~Has(inflight, r)
              /\ Has(chunkFiles, part) /\ blobs[chunkFiles[part]] = req[r].payload
     /\ \A r \in ReqIds :
          (req[r].kind = "chunk" /\ req[r].pc # "done" /\ req'[r].pc = "done"
             /\ req'[r].reply.status # 200) => jsonFiles' = jsonFiles]_vars

\* An index was recorded by a request whose payload came before its
\* fields, after a request for the same index had its connection dropped
C35_Witness ==
  \E r, r2 \in ReqIds :
    /\ r2 < r /\ Done(r2) /\ req[r2].reply.status = 500
    /\ req[r2].kind = "chunk" /\ req[r2].index = req[r].index
    /\ ChunkStored(r) /\ req[r].wroteTemp
    /\ Recorded("u1", req[r].index.v)
    /\ ~Recorded("u1", 1 - req[r].index.v)

\* Request r is a direct upload whose authKey is missing or unknown
RejectedUpload(r) == req[r].kind = "direct" /\ Unauthorized(req[r])

\* C36: a direct upload whose authKey is missing or unknown is answered
\* with 403; none of its steps changes uploadDir, the index or the log,
\* and once it has ended no temp file that it staged is left.
C36_UnauthorizedUploadLeavesNothing ==
  /\ [][\A r \in ReqIds :
          (RejectedUpload(r)' /\ req'[r] # req[r]) =>
            UNCHANGED <<uploadDir, hashIndex, uploadLog, jsonFiles, jsonInodes>>]_vars
  /\ [](\A r \in ReqIds :
          (RejectedUpload(r) /\ Done(r)) =>
            /\ req[r].reply = [status |-> 403]
            /\ \A x \in DOMAIN tmpFiles : x[1] # r
            /\ \A ino \in DOMAIN blobs : ino[1] # r)

\* An upload of two files without an authKey has been rejected after an
\* upload with a known key was stored
C36_Witness ==
  \E r, r2 \in ReqIds :
    /\ r2 < r /\ Accepted(r2) /\ req[r2].kind = "direct" /\ uploadLog # <<>>
    /\ RejectedUpload(r) /\ Done(r) /\ req[r].authKey = "" /\ Len(req[r].files) = 2
    /\ tmpFiles = Empty

\* C37: a marker that is not stale leaves uploadDir only by a step of the
\* request that made it.
C37_YoungMarkerKept ==
  [][\A nm \in DOMAIN uploadDir :
       (uploadDir[nm].kind = "lock" /\ ~uploadDir[nm].stale
          /\ nm \notin DOMAIN uploadDir') =>
         /\ uploadDir[nm].by \in ReqIds
         /\ req'[uploadDir[nm].by] # req[uploadDir[nm].by]]_vars

\* C38: no step puts other bytes under the name of a stored file.
C38_NoOverwrite ==
  [][\A nm \in DOMAIN uploadDir :
       (uploadDir[nm].kind = "file" /\ nm \in DOMAIN uploadDir') =>
         uploadDir'[nm] = uploadDir[nm]]_vars

\* No request holds a reservation for the serial of a stored file of its
\* owner and prefix
StoredSerialsCount ==
  \A r \in ReqIds : \A nm \in DOMAIN uploadDir :
    (/\ Reserved(r) /\ uploadDir[nm].kind = "file"
     /\ nm.owner = CurOwner(req[r]) /\ nm.prefix = CurPrefix(req[r])) =>
      nm.n # req[r].n
\* The step removes no stored file
StoredFilesStay ==
  \A nm \in DOMAIN uploadDir : uploadDir[nm].kind = "file" => nm \in DOMAIN uploadDir'

\* C39: whatever the extension of its name, a file that was finalized
\* into uploadDir has a serial that no later allocation for its owner and
\* prefix returns, and no step removes it.
C39_AnyExtensionCounts == [][StoredSerialsCount' /\ StoredFilesStay]_vars

\* C40: across Start, Pause and Resume of the browser client an item is
\* handled by at most one worker at a time: no two runs have a chunk or
\* the finalize request of the same item outstanding together.
Sending(r) == req[r].kind = "run" /\ req[r].pc \in {"wk_chunk", "wk_rechunk", "wk_assemble"}
C40_OneWorkerPerItem ==
  \A r1 \in ReqIds : \A r2 \in ReqIds : Sending(r1) /\ Sending(r2) => r1 = r2
====
